---- MODULE Spec2Model ----
(***************************************************************************)
(* Position session calculator (src/lib/position_calculator.ts).           *)
(*                                                                         *)
(* The calculator is a batch computation over a list of executions.  The   *)
(* model runs it as a state machine: the dispatcher picks a calculator and *)
(* groups the executions, each partition is sorted and walked one          *)
(* execution (inverse calculator) or one aggregated order (hedge-mode      *)
(* calculator) per step, and the emitted sessions are sorted at the end.   *)
(*                                                                         *)
(* Numbers.  Quantities, prices and commissions are integers.  In the      *)
(* hedge-mode calculator one quantity unit is 0.005 contracts, so that the *)
(* tolerance 0.01 is 2 units.  Quotients (average prices, PnL, fees) are   *)
(* kept as fractions [num, den].  A timestamp is the index of an instant;  *)
(* getTime gives its milliseconds.                                         *)
(*                                                                         *)
(* The data loader (src/unnamed/part_004) hands the executions of an       *)
(* exchange's file to the calculator and keeps what it derives from them   *)
(* in a cache; its exported functions are modelled as operators on the     *)
(* cache entry and as one action per call.                                 *)
(***************************************************************************)
EXTENDS Integers, Sequences, FiniteSets

\* ------------------------------------------------------------------ bounds

MaxExecs == 3
MaxQty == 3

\* ------------------------------------------------------- program constants

\* BINANCE_POSITION_TOLERANCE = 0.01, in quantity units of 0.005
BINANCE_POSITION_TOLERANCE == 2
\* BINANCE_SESSION_GAP_MS = 2 * 60 * 60 * 1000
BINANCE_SESSION_GAP_MS == 2 * 60 * 60 * 1000
\* satoshis per BTC, the divisor of totalFees
SatoshisPerBTC == 100000000

\* null (closeTime of an open session, sessionStartTime of no session)
Null == 0

\* ------------------------------------------------------------ input domain

\* One instant every three hours: two consecutive instants are further apart
\* than BINANCE_SESSION_GAP_MS.
TimeStepMs == 3 * 60 * 60 * 1000

Timestamps == {1, 2}
Quantities == 1..MaxQty
Sides == {"Buy", "Sell"}
ExchangeIds == {"bitmex", "binance"}
\* exchangeId left out of the call
NoHint == "undefined"
PositionSideTags == {"LONG", "SHORT"}
TheSymbol == "XBTUSD"
Commission == 75

\* The price traded at an instant.
PriceAt(t) == 100 + 10 * (t - 1)

\* What the loader leaves free in one fill.
Fills == [side : Sides, lastQty : Quantities, timestamp : Timestamps]

\* ----------------------------------------------------------------- helpers

\* Mutant of Abs: the number with its sign.
AbsSkipped(x) == x

Abs(x) == IF x < 0 THEN -x ELSE x
Max(a, b) == IF a >= b THEN a ELSE b
Min(a, b) == IF a <= b THEN a ELSE b

\* A timestamp string that Date cannot parse.
InvalidDate == -1

\* NaN: the getTime() of an invalid Date, and the result of arithmetic on it.
NaN == -1

\* new Date(timestamp).getTime()
getTime(t) == IF t = InvalidDate THEN NaN ELSE t * TimeStepMs

\* a - b and a > b on numbers that may be NaN
Minus(a, b) == IF a = NaN \/ b = NaN THEN NaN ELSE a - b
GreaterThan(a, b) == a # NaN /\ b # NaN /\ a > b

\* What Array.prototype.sort makes of the comparator's result v: NaN counts
\* as +0 (the two elements compare equal).
SortCompare(v) == IF v = NaN THEN 0 ELSE v

\* The quotient n / d, kept as a fraction.
Frac(n, d) == [num |-> n, den |-> d]
FracZero == Frac(0, 1)
FracEq(a, b) == a.num * b.den = b.num * a.den
FracSign(a) == IF a.num * a.den > 0 THEN 1 ELSE IF a.num * a.den < 0 THEN -1 ELSE 0
FracSub(a, b) == Frac(a.num * b.den - b.num * a.den, a.den * b.den)

\* Mutant of FracInv: the price itself where its reciprocal is due.
FracInvSkipped(a) == a

FracInv(a) == Frac(a.den, a.num)
FracScale(k, a) == Frac(k * a.num, a.den)

\* Mutant of Diff: the amount subtracted is left out.
DiffWithoutSubtrahend(a, b) == [of |-> a, less |-> FracZero]

\* a - b of two amounts whose denominators are too far apart to share one
\* fraction (a PnL in price reciprocals, fees in 1/10^8): kept as the pair.
Diff(a, b) == [of |-> a, less |-> b]

\* String.prototype.toLowerCase on a side
toLowerCase(side) == IF side = "Buy" THEN "buy" ELSE "sell"

\* Array.prototype.sort with the comparator
\*   new Date(a.timestamp).getTime() - new Date(b.timestamp).getTime():
\* ascending and stable (an element goes after the elements that compare
\* equal to it and came before it).  The order is the language's only while
\* the comparator is consistent: all timestamps parsable, or all the parsable
\* ones equal.
RECURSIVE InsertByTimestamp(_, _)
InsertByTimestamp(x, sorted) ==
    IF sorted = <<>> THEN <<x>>
    ELSE IF SortCompare(Minus(getTime(sorted[Len(sorted)].timestamp),
                              getTime(x.timestamp))) <= 0
         THEN Append(sorted, x)
         ELSE Append(InsertByTimestamp(x, SubSeq(sorted, 1, Len(sorted) - 1)),
                     sorted[Len(sorted)])

RECURSIVE SortByTimestampFrom(_, _)
SortByTimestampFrom(s, sorted) ==
    IF s = <<>> THEN sorted
    ELSE SortByTimestampFrom(Tail(s), InsertByTimestamp(Head(s), sorted))

\* Mutant of SortByTimestamp: the list is walked in arrival order.
SortByTimestampSkipped(s) == s

SortByTimestamp(s) == SortByTimestampFrom(s, <<>>)

\* The key of the final sort: new Date(a.closeTime || a.openTime).getTime()
SessionSortTime(s) == getTime(IF s.closeTime # Null THEN s.closeTime ELSE s.openTime)

\* allSessions.sort((a, b) => timeB - timeA): descending and stable.
RECURSIVE InsertSessionNewestFirst(_, _)
InsertSessionNewestFirst(x, sorted) ==
    IF sorted = <<>> THEN <<x>>
    ELSE IF SortCompare(Minus(SessionSortTime(x),
                              SessionSortTime(sorted[Len(sorted)]))) <= 0
         THEN Append(sorted, x)
         ELSE Append(InsertSessionNewestFirst(x, SubSeq(sorted, 1, Len(sorted) - 1)),
                     sorted[Len(sorted)])

RECURSIVE SortSessionsFrom(_, _)
SortSessionsFrom(s, sorted) ==
    IF s = <<>> THEN sorted
    ELSE SortSessionsFrom(Tail(s), InsertSessionNewestFirst(Head(s), sorted))

\* Mutant of SortSessionsNewestFirst: the sessions stay in emission order.
SortSessionsSkipped(s) == s

SortSessionsNewestFirst(s) == SortSessionsFrom(s, <<>>)

\* The keys of a Map filled by one pass over a list whose elements have the
\* keys `keys`, in insertion order.
RECURSIVE FirstOccurrences(_, _)
FirstOccurrences(keys, seen) ==
    IF keys = <<>> THEN seen
    ELSE FirstOccurrences(Tail(keys),
                          IF \E j \in 1..Len(seen) : seen[j] = Head(keys) THEN seen
                          ELSE Append(seen, Head(keys)))

\* ------------------------------------------------------------------- state

VARIABLES
    given,             \* the list as the caller built it, before any call
    returned,          \* what the earlier calls on the list returned
    executions,        \* the input list of the call: the executions of the
                       \* exchange's file
    exchangeId,        \* the exchange hint of the call
    pc,                \* "dispatch", "partition", "walk", "sort" or "done"
    calculator,        \* "none", "bitmex" or "binance"
    partitions,        \* the Map of groups, in insertion order: <<[key, items]>>
    partIndex,         \* the group the forEach is at (0 before the first)
    work,              \* symbolExecutions / orders: the sorted list being walked
    cursor,            \* how many elements of work the loop has processed
    allSessions,
    globalSessionId,
    runningPosition,
    sessionStartTime,
    sessionExecutions,
    sessionOrders,
    totalBought,
    totalSold,
    totalBuyCost,
    totalSellCost,
    totalCommission,
    maxPosition,
    lastOrderTime,
    trace,             \* history: one record per iteration of a walk (the
                       \* calculator whose loop it is, the position before
                       \* and after it, the session numbers it used, whether
                       \* the time gap check fired)
    cacheStore,        \* the data loader's cache entry of the exchange
    calls              \* history: the calls made to the data loader, each
                       \* with what it returned

vars == <<given, returned, executions, exchangeId, pc, calculator, partitions, partIndex, work,
          cursor, allSessions, globalSessionId, runningPosition,
          sessionStartTime, sessionExecutions, sessionOrders, totalBought, totalSold,
          totalBuyCost, totalSellCost, totalCommission, maxPosition,
          lastOrderTime, trace, cacheStore, calls>>

\* What the caller holds besides the arguments of the call.
caller == <<given, returned>>

\* The state of the data loader (src/unnamed/part_004), which the calculators
\* never touch.
loader == <<cacheStore, calls>>

\* The variables of one partition's walk, as the closures of the source see
\* them.
Walk ==
    [allSessions |-> allSessions, globalSessionId |-> globalSessionId,
     runningPosition |-> runningPosition, sessionStartTime |-> sessionStartTime,
     sessionExecutions |-> sessionExecutions, sessionOrders |-> sessionOrders,
     totalBought |-> totalBought,
     totalSold |-> totalSold, totalBuyCost |-> totalBuyCost,
     totalSellCost |-> totalSellCost, totalCommission |-> totalCommission,
     maxPosition |-> maxPosition, lastOrderTime |-> lastOrderTime]

SetWalk(w) ==
    /\ allSessions' = w.allSessions
    /\ globalSessionId' = w.globalSessionId
    /\ runningPosition' = w.runningPosition
    /\ sessionStartTime' = w.sessionStartTime
    /\ sessionExecutions' = w.sessionExecutions
    /\ sessionOrders' = w.sessionOrders
    /\ totalBought' = w.totalBought
    /\ totalSold' = w.totalSold
    /\ totalBuyCost' = w.totalBuyCost
    /\ totalSellCost' = w.totalSellCost
    /\ totalCommission' = w.totalCommission
    /\ maxPosition' = w.maxPosition
    /\ lastOrderTime' = w.lastOrderTime

\* The locals declared at the top of one partition's callback.
FreshWalk(sessions, nextId) ==
    [allSessions |-> sessions, globalSessionId |-> nextId,
     runningPosition |-> 0, sessionStartTime |-> Null,
     sessionExecutions |-> <<>>, sessionOrders |-> <<>>,
     totalBought |-> 0, totalSold |-> 0,
     totalBuyCost |-> 0, totalSellCost |-> 0, totalCommission |-> 0,
     maxPosition |-> 0, lastOrderTime |-> 0]

\* ------------------------------------------- inverse (BitMEX) calculator

\* The filter of calculateBitMEXPositionSessions.
IsTradeExecution(e) ==
    e.execType = "Trade" /\ e.side \in Sides /\ e.lastQty > 0

\* The ExecutionForCalc pushed for execution e.
ToExecutionForCalc(e) ==
    [execID |-> e.execID, orderID |-> e.orderID, symbol |-> e.symbol,
     side |-> e.side, lastQty |-> e.lastQty, lastPx |-> e.lastPx,
     execComm |-> e.execComm, timestamp |-> e.timestamp, text |-> e.text]

\* Mutant of GroupBySymbol: every symbol's executions go to the group of the
\* first symbol.
GroupAsOneBook(execs) ==
    LET tradeExecutions == SelectSeq(execs, IsTradeExecution)
        forCalc == [i \in 1..Len(tradeExecutions) |->
                        ToExecutionForCalc(tradeExecutions[i])]
    IN  IF forCalc = <<>> THEN <<>>
        ELSE <<[key |-> forCalc[1].symbol, items |-> forCalc]>>

\* executionsBySymbol: one group per symbol, in order of first appearance.
GroupBySymbol(execs) ==
    LET tradeExecutions == SelectSeq(execs, IsTradeExecution)
        forCalc == [i \in 1..Len(tradeExecutions) |->
                        ToExecutionForCalc(tradeExecutions[i])]
        keys == FirstOccurrences([i \in 1..Len(forCalc) |-> forCalc[i].symbol], <<>>)
    IN  [k \in 1..Len(keys) |->
            [key |-> keys[k],
             items |-> SelectSeq(forCalc, LAMBDA e : e.symbol = keys[k])]]

\* The Trade built from execution e.
ToTrade(e) ==
    [id |-> e.execID, datetime |-> e.timestamp, symbol |-> e.symbol,
     side |-> toLowerCase(e.side), price |-> e.lastPx, amount |-> e.lastQty,
     fee |-> e.execComm, orderID |-> e.orderID]

\* side of a session of the inverse calculator
BitMEXSessionSide(bought, sold) == IF bought > sold THEN "long" ELSE "short"

\* closeSession of calculateBitMEXPositionSessions
BitMEXCloseSession(w, symbol, endTime, endPosition) ==
    IF Len(w.sessionExecutions) = 0 \/ w.sessionStartTime = Null THEN w
    ELSE
      LET side == BitMEXSessionSide(w.totalBought, w.totalSold)
          buyAvg == IF w.totalBought > 0
                    THEN Frac(w.totalBuyCost, w.totalBought) ELSE FracZero
          sellAvg == IF w.totalSold > 0
                     THEN Frac(w.totalSellCost, w.totalSold) ELSE FracZero
          avgEntryPrice == IF side = "long" THEN buyAvg ELSE sellAvg
          avgExitPrice == IF side = "long" THEN sellAvg ELSE buyAvg
          closedQty == Min(w.totalBought, w.totalSold)
          realizedPnl ==
              IF closedQty > 0 /\ FracSign(avgEntryPrice) > 0
                               /\ FracSign(avgExitPrice) > 0
              THEN IF side = "long"
                   THEN FracScale(closedQty,
                            FracSub(FracInv(avgEntryPrice), FracInv(avgExitPrice)))
                   ELSE FracScale(closedQty,
                            FracSub(FracInv(avgExitPrice), FracInv(avgEntryPrice)))
              ELSE FracZero
          totalFees == Frac(Abs(w.totalCommission), SatoshisPerBTC)
          trades == [i \in 1..Len(w.sessionExecutions) |->
                        ToTrade(w.sessionExecutions[i])]
          session ==
              [id |-> [prefix |-> symbol, seq |-> w.globalSessionId],
               symbol |-> symbol,
               side |-> side,
               openTime |-> w.sessionStartTime,
               closeTime |-> IF endPosition = 0 THEN endTime ELSE Null,
               durationMs |-> Minus(getTime(endTime), getTime(w.sessionStartTime)),
               maxSize |-> w.maxPosition,
               totalBought |-> w.totalBought,
               totalSold |-> w.totalSold,
               avgEntryPrice |-> avgEntryPrice,
               avgExitPrice |-> IF endPosition = 0 THEN avgExitPrice ELSE FracZero,
               realizedPnl |-> IF endPosition = 0 THEN realizedPnl ELSE FracZero,
               totalFees |-> totalFees,
               netPnl |-> IF endPosition = 0 THEN Diff(realizedPnl, totalFees)
                          ELSE Diff(FracZero, totalFees),
               tradeCount |-> Len(w.sessionExecutions),
               trades |-> trades,
               status |-> IF endPosition = 0 THEN "closed" ELSE "open"]
      IN  [w EXCEPT !.allSessions = Append(@, session),
                    !.globalSessionId = @ + 1]

\* resetSession of calculateBitMEXPositionSessions
BitMEXResetSession(w) ==
    [w EXCEPT !.sessionExecutions = <<>>, !.sessionStartTime = Null,
              !.totalBought = 0, !.totalSold = 0, !.totalBuyCost = 0,
              !.totalSellCost = 0, !.totalCommission = 0, !.maxPosition = 0]

\* Mutant of BitMEXFlip: the closing session keeps the whole fill in its
\* totals.
BitMEXFlipWithoutAdjusting(w, exec, symbol) ==
    LET price == exec.lastPx
        overflowQty == Abs(w.runningPosition)
        closed == BitMEXResetSession(
                      BitMEXCloseSession(w, symbol, exec.timestamp, 0))
        started == [closed EXCEPT !.sessionStartTime = exec.timestamp,
                                  !.sessionExecutions = <<exec>>]
        seeded ==
            IF exec.side = "Buy"
            THEN [started EXCEPT !.totalBought = overflowQty,
                                 !.totalBuyCost = overflowQty * price]
            ELSE [started EXCEPT !.totalSold = overflowQty,
                                 !.totalSellCost = overflowQty * price]
    IN  [seeded EXCEPT !.totalCommission = exec.execComm,
                       !.maxPosition = overflowQty]

\* Mutant of BitMEXFlip: the new session is seeded with the whole fill.
BitMEXFlipSeedingWholeFill(w, exec, symbol) ==
    LET price == exec.lastPx
        overflowQty == Abs(w.runningPosition)
        adjusted ==
            IF exec.side = "Buy"
            THEN [w EXCEPT !.totalBought = @ - overflowQty,
                           !.totalBuyCost = @ - overflowQty * price]
            ELSE [w EXCEPT !.totalSold = @ - overflowQty,
                           !.totalSellCost = @ - overflowQty * price]
        closed == BitMEXResetSession(
                      BitMEXCloseSession(adjusted, symbol, exec.timestamp, 0))
        started == [closed EXCEPT !.sessionStartTime = exec.timestamp,
                                  !.sessionExecutions = <<exec>>]
        seeded ==
            IF exec.side = "Buy"
            THEN [started EXCEPT !.totalBought = exec.lastQty,
                                 !.totalBuyCost = exec.lastQty * price]
            ELSE [started EXCEPT !.totalSold = exec.lastQty,
                                 !.totalSellCost = exec.lastQty * price]
    IN  [seeded EXCEPT !.totalCommission = exec.execComm,
                       !.maxPosition = overflowQty]

\* Mutant of BitMEXFlip: the commission of the execution stays with the
\* session it closes.
BitMEXFlipFeeToClosedOnly(w, exec, symbol) ==
    LET price == exec.lastPx
        overflowQty == Abs(w.runningPosition)
        adjusted ==
            IF exec.side = "Buy"
            THEN [w EXCEPT !.totalBought = @ - overflowQty,
                           !.totalBuyCost = @ - overflowQty * price]
            ELSE [w EXCEPT !.totalSold = @ - overflowQty,
                           !.totalSellCost = @ - overflowQty * price]
        closed == BitMEXResetSession(
                      BitMEXCloseSession(adjusted, symbol, exec.timestamp, 0))
        started == [closed EXCEPT !.sessionStartTime = exec.timestamp,
                                  !.sessionExecutions = <<exec>>]
        seeded ==
            IF exec.side = "Buy"
            THEN [started EXCEPT !.totalBought = overflowQty,
                                 !.totalBuyCost = overflowQty * price]
            ELSE [started EXCEPT !.totalSold = overflowQty,
                                 !.totalSellCost = overflowQty * price]
    IN  [seeded EXCEPT !.totalCommission = 0,
                       !.maxPosition = overflowQty]

\* Mutant of BitMEXFlip: a sign reversal is not told from any other step.
BitMEXFlipIgnored(w, exec, symbol) == w

\* The flip branch of the walk: the execution took the position across zero.
BitMEXFlip(w, exec, symbol) ==
    LET price == exec.lastPx
        overflowQty == Abs(w.runningPosition)
        adjusted ==
            IF exec.side = "Buy"
            THEN [w EXCEPT !.totalBought = @ - overflowQty,
                           !.totalBuyCost = @ - overflowQty * price]
            ELSE [w EXCEPT !.totalSold = @ - overflowQty,
                           !.totalSellCost = @ - overflowQty * price]
        closed == BitMEXResetSession(
                      BitMEXCloseSession(adjusted, symbol, exec.timestamp, 0))
        started == [closed EXCEPT !.sessionStartTime = exec.timestamp,
                                  !.sessionExecutions = <<exec>>]
        seeded ==
            IF exec.side = "Buy"
            THEN [started EXCEPT !.totalBought = overflowQty,
                                 !.totalBuyCost = overflowQty * price]
            ELSE [started EXCEPT !.totalSold = overflowQty,
                                 !.totalSellCost = overflowQty * price]
    IN  [seeded EXCEPT !.totalCommission = exec.execComm,
                       !.maxPosition = overflowQty]

\* One iteration of `for (const exec of symbolExecutions)`.
BitMEXProcessExecution(w, exec, symbol) ==
    LET positionBefore == w.runningPosition
        qty == exec.lastQty
        price == exec.lastPx
        updated ==
            IF exec.side = "Buy"
            THEN [w EXCEPT !.runningPosition = @ + qty,
                           !.totalBought = @ + qty,
                           !.totalBuyCost = @ + qty * price]
            ELSE [w EXCEPT !.runningPosition = @ - qty,
                           !.totalSold = @ + qty,
                           !.totalSellCost = @ + qty * price]
        pushed ==
            [updated EXCEPT !.totalCommission = @ + exec.execComm,
                            !.sessionExecutions = Append(@, exec),
                            !.maxPosition = Max(@, Abs(updated.runningPosition))]
        \* Check for session start
        started ==
            IF positionBefore = 0 /\ pushed.runningPosition # 0
            THEN [pushed EXCEPT !.sessionStartTime = exec.timestamp]
            ELSE pushed
        \* Check for session end (position back to 0)
        ended ==
            IF positionBefore # 0 /\ started.runningPosition = 0
            THEN BitMEXResetSession(
                     BitMEXCloseSession(started, symbol, exec.timestamp, 0))
            ELSE started
    IN  \* Check for position flip
        IF (positionBefore > 0 /\ ended.runningPosition < 0)
               \/ (positionBefore < 0 /\ ended.runningPosition > 0)
        THEN BitMEXFlip(ended, exec, symbol)
        ELSE ended

\* After the loop: handle any remaining open position.
BitMEXFinishSymbol(w, symbol) ==
    IF w.runningPosition # 0 /\ Len(w.sessionExecutions) > 0
    THEN BitMEXCloseSession(w, symbol,
             w.sessionExecutions[Len(w.sessionExecutions)].timestamp,
             w.runningPosition)
    ELSE w

\* ------------------------------------- hedge-mode (Binance/OKX) calculator

\* An annotation text, as the two regular expressions read it: the word that
\* follows positionSide / posSide ("" when the text has neither, or is empty)
\* and what follows realizedPnl.
Annotation(tag, pnl) == [positionSide |-> tag, realizedPnl |-> pnl]

\* What follows realizedPnl in a text: nothing the expression -?[\d.]+
\* matches (no such key, or no digits after it); dots only, which the
\* expression matches and parseFloat turns into NaN; a number.
NoPnlValue == [matched |-> FALSE, parsed |-> 0]
DotsOnly == [matched |-> TRUE, parsed |-> NaN]
PnlValue(v) == [matched |-> TRUE, parsed |-> v]

\* Mutant of parseRealizedPnlFromText: no text yields a value.
parseRealizedPnlAsZero(text) == 0

\* match ? parseFloat(match[1]) || 0 : 0
parseRealizedPnlFromText(text) ==
    IF ~text.realizedPnl.matched THEN 0
    ELSE IF text.realizedPnl.parsed = NaN \/ text.realizedPnl.parsed = 0 THEN 0
         ELSE text.realizedPnl.parsed

\* String.prototype.toUpperCase on a position-side word
toUpperCase(word) ==
    IF word = "long" THEN "LONG" ELSE IF word = "short" THEN "SHORT" ELSE word

\* Mutant of parsePositionSideFromText: a text without a LONG or SHORT tag
\* is read as SHORT.
parsePositionSideDefaultingShort(text) ==
    IF toUpperCase(text.positionSide) = "LONG" THEN "LONG" ELSE "SHORT"

parsePositionSideFromText(text) ==
    LET side == toUpperCase(text.positionSide)
    IN  IF text.positionSide # "" /\ side \in {"LONG", "SHORT"} THEN side
        ELSE "BOTH"

\* Mutant of isBinancePositionClosed: a position on the other side of zero
\* counts as closed.
isBinancePositionClosedOrBelow(position) == position < BINANCE_POSITION_TOLERANCE

isBinancePositionClosed(position) == Abs(position) < BINANCE_POSITION_TOLERANCE

RECURSIVE SumSeq(_)
SumSeq(s) == IF s = <<>> THEN 0 ELSE Head(s) + SumSeq(Tail(s))

\* Mutant of MinSeq: the timestamp of the fill that arrived last.
MinSeqAsLast(s) == s[Len(s)]

RECURSIVE MinSeq(_)
MinSeq(s) == IF Len(s) = 1 THEN s[1] ELSE Min(Head(s), MinSeq(Tail(s)))

\* The key `${e.symbol}:${positionSide}` of an execution.
PartitionKey(e) == <<e.symbol, parsePositionSideFromText(e.text)>>

\* executionsByKey: one group per (symbol, position side), in order of first
\* appearance.
GroupByKey(execs) ==
    LET tradeExecutions == SelectSeq(execs, IsTradeExecution)
        keys == FirstOccurrences(
                    [i \in 1..Len(tradeExecutions) |-> PartitionKey(tradeExecutions[i])],
                    <<>>)
    IN  [k \in 1..Len(keys) |->
            [key |-> keys[k],
             items |-> SelectSeq(tradeExecutions,
                                 LAMBDA e : PartitionKey(e) = keys[k])]]

\* Step 1: the BinanceAggregatedOrder of each order id of a group, in order of
\* first appearance.
AggregateByOrderID(keyExecutions, positionSide) ==
    LET ids == FirstOccurrences(
                   [i \in 1..Len(keyExecutions) |-> keyExecutions[i].orderID], <<>>)
        OrderOf(id) ==
            LET fills == SelectSeq(keyExecutions, LAMBDA e : e.orderID = id)
                totalQty == SumSeq([i \in 1..Len(fills) |-> fills[i].lastQty])
                totalCost == SumSeq([i \in 1..Len(fills) |->
                                        fills[i].lastQty * fills[i].lastPx])
            IN  [orderID |-> id,
                 symbol |-> fills[1].symbol,
                 side |-> fills[1].side,
                 positionSide |-> positionSide,
                 totalQty |-> totalQty,
                 avgPrice |-> IF totalQty > 0 THEN Frac(totalCost, totalQty)
                              ELSE FracZero,
                 totalCost |-> totalCost,
                 totalComm |-> SumSeq([i \in 1..Len(fills) |-> fills[i].execComm]),
                 realizedPnl |-> SumSeq([i \in 1..Len(fills) |->
                                     parseRealizedPnlFromText(fills[i].text)]),
                 timestamp |-> MinSeq([i \in 1..Len(fills) |-> fills[i].timestamp]),
                 executions |-> fills]
    IN  [k \in 1..Len(ids) |-> OrderOf(ids[k])]

\* getPositionDelta
getPositionDelta(order, positionSide) ==
    IF positionSide = "SHORT"
    THEN (IF order.side = "Sell" THEN order.totalQty ELSE -order.totalQty)
    ELSE (IF order.side = "Buy" THEN order.totalQty ELSE -order.totalQty)

\* The peak |position| of a replay of the session's orders.
RECURSIVE ReplayMaxPosition(_, _, _, _)
ReplayMaxPosition(orders, positionSide, tempPos, maxPos) ==
    IF orders = <<>> THEN maxPos
    ELSE LET pos == tempPos + getPositionDelta(Head(orders), positionSide)
         IN  ReplayMaxPosition(Tail(orders), positionSide, pos, Max(maxPos, Abs(pos)))

\* The executions of the orders, order after order.
RECURSIVE FlattenExecutions(_)
FlattenExecutions(orders) ==
    IF orders = <<>> THEN <<>>
    ELSE Head(orders).executions \o FlattenExecutions(Tail(orders))

\* trades.sort by datetime: Trade has datetime where Execution has timestamp.
SortTradesByDatetime(trades) ==
    LET keyed == [i \in 1..Len(trades) |->
                     [timestamp |-> trades[i].datetime, trade |-> trades[i]]]
        sorted == SortByTimestamp(keyed)
    IN  [i \in 1..Len(sorted) |-> sorted[i].trade]

\* closeSession of calculateBinancePositionSessions
BinanceCloseSession(w, symbol, positionSide, endTime) ==
    IF Len(w.sessionOrders) = 0 \/ w.sessionStartTime = Null THEN w
    ELSE
      LET isShortPosition == positionSide = "SHORT"
          IsOpening(order) == IF isShortPosition THEN order.side = "Sell"
                              ELSE order.side = "Buy"
          opening == SelectSeq(w.sessionOrders, IsOpening)
          closing == SelectSeq(w.sessionOrders, LAMBDA o : ~IsOpening(o))
          totalEntry == SumSeq([i \in 1..Len(opening) |-> opening[i].totalQty])
          totalExit == SumSeq([i \in 1..Len(closing) |-> closing[i].totalQty])
          totalEntryCost == SumSeq([i \in 1..Len(opening) |-> opening[i].totalCost])
          totalExitCost == SumSeq([i \in 1..Len(closing) |-> closing[i].totalCost])
          totalComm == SumSeq([i \in 1..Len(w.sessionOrders) |->
                                  w.sessionOrders[i].totalComm])
          totalRealizedPnl == SumSeq([i \in 1..Len(w.sessionOrders) |->
                                         w.sessionOrders[i].realizedPnl])
          side == IF isShortPosition THEN "short" ELSE "long"
          avgEntryPrice == IF totalEntry > 0 THEN Frac(totalEntryCost, totalEntry)
                           ELSE FracZero
          avgExitPrice == IF totalExit > 0 THEN Frac(totalExitCost, totalExit)
                          ELSE FracZero
          realizedPnl == Frac(totalRealizedPnl, 1)
          totalFees == Frac(Abs(totalComm), SatoshisPerBTC)
          maxPos == ReplayMaxPosition(w.sessionOrders, positionSide, 0, 0)
          flat == FlattenExecutions(w.sessionOrders)
          trades == SortTradesByDatetime([i \in 1..Len(flat) |-> ToTrade(flat[i])])
          isClosed == isBinancePositionClosed(totalEntry - totalExit)
          session ==
              [id |-> [prefix |-> <<symbol, positionSide>>,
                       seq |-> w.globalSessionId],
               symbol |-> symbol,
               side |-> side,
               openTime |-> w.sessionStartTime,
               closeTime |-> IF isClosed THEN endTime ELSE Null,
               durationMs |-> Minus(getTime(endTime), getTime(w.sessionStartTime)),
               maxSize |-> maxPos,
               totalBought |-> IF isShortPosition THEN totalExit ELSE totalEntry,
               totalSold |-> IF isShortPosition THEN totalEntry ELSE totalExit,
               avgEntryPrice |-> avgEntryPrice,
               avgExitPrice |-> IF isClosed THEN avgExitPrice ELSE FracZero,
               realizedPnl |-> IF isClosed THEN realizedPnl ELSE FracZero,
               totalFees |-> totalFees,
               netPnl |-> IF isClosed THEN Diff(realizedPnl, totalFees)
                          ELSE Diff(FracZero, totalFees),
               tradeCount |-> Len(trades),
               trades |-> trades,
               status |-> IF isClosed THEN "closed" ELSE "open"]
      IN  [w EXCEPT !.allSessions = Append(@, session),
                    !.globalSessionId = @ + 1]

\* Mutant of BinanceResetSession: the orders of the closed session stay
\* pending.
BinanceResetSessionKeepingOrders(w) ==
    [w EXCEPT !.sessionStartTime = Null]

\* resetSession of calculateBinancePositionSessions
BinanceResetSession(w) ==
    [w EXCEPT !.sessionOrders = <<>>, !.sessionStartTime = Null]

\* The time gap check at the top of one iteration.
BinanceTimeGapFires(w, order) ==
    LET orderTime == getTime(order.timestamp)
        timeSinceLastOrder == IF GreaterThan(w.lastOrderTime, 0)
                              THEN Minus(orderTime, w.lastOrderTime) ELSE 0
    IN  /\ GreaterThan(timeSinceLastOrder, BINANCE_SESSION_GAP_MS)
        /\ Len(w.sessionOrders) > 0
        /\ isBinancePositionClosed(w.runningPosition)

BinanceTimeGapCheck(w, order, symbol, positionSide) ==
    IF BinanceTimeGapFires(w, order)
    THEN [BinanceResetSession(
              BinanceCloseSession(w, symbol, positionSide,
                  w.sessionOrders[Len(w.sessionOrders)].timestamp))
          EXCEPT !.runningPosition = 0]
    ELSE w

\* Mutant of BinanceProcessOrder: the residue inside the band is carried
\* over to the next session.
BinanceProcessOrderKeepingResidue(w, order, symbol, positionSide) ==
    LET orderTime == getTime(order.timestamp)
        positionBefore == w.runningPosition
        wasPositionClosed == isBinancePositionClosed(positionBefore)
        gapChecked == BinanceTimeGapCheck(w, order, symbol, positionSide)
        updated == [gapChecked EXCEPT
                        !.runningPosition = @ + getPositionDelta(order, positionSide)]
        isNowClosed == isBinancePositionClosed(updated.runningPosition)
        started ==
            IF wasPositionClosed /\ ~isNowClosed /\ Len(updated.sessionOrders) = 0
            THEN [updated EXCEPT !.sessionStartTime = order.timestamp]
            ELSE updated
        pushed == [started EXCEPT !.sessionOrders = Append(@, order),
                                  !.lastOrderTime = orderTime]
    IN  IF ~wasPositionClosed /\ isNowClosed
        THEN BinanceResetSession(
                 BinanceCloseSession(pushed, symbol, positionSide, order.timestamp))
        ELSE pushed

\* One iteration of `for (const order of orders)`.
BinanceProcessOrder(w, order, symbol, positionSide) ==
    LET orderTime == getTime(order.timestamp)
        positionBefore == w.runningPosition
        wasPositionClosed == isBinancePositionClosed(positionBefore)
        gapChecked == BinanceTimeGapCheck(w, order, symbol, positionSide)
        updated == [gapChecked EXCEPT
                        !.runningPosition = @ + getPositionDelta(order, positionSide)]
        isNowClosed == isBinancePositionClosed(updated.runningPosition)
        \* Session start
        started ==
            IF wasPositionClosed /\ ~isNowClosed /\ Len(updated.sessionOrders) = 0
            THEN [updated EXCEPT !.sessionStartTime = order.timestamp]
            ELSE updated
        pushed == [started EXCEPT !.sessionOrders = Append(@, order),
                                  !.lastOrderTime = orderTime]
    IN  \* Session end - position returned to ~0
        IF ~wasPositionClosed /\ isNowClosed
        THEN [BinanceResetSession(
                  BinanceCloseSession(pushed, symbol, positionSide, order.timestamp))
              EXCEPT !.runningPosition = 0]
        ELSE pushed

\* After the loop: handle remaining open position.
BinanceFinishPartition(w, symbol, positionSide) ==
    IF Len(w.sessionOrders) > 0
    THEN BinanceCloseSession(w, symbol, positionSide,
             w.sessionOrders[Len(w.sessionOrders)].timestamp)
    ELSE w

\* ---------------------------------------------------------------- dispatch

\* isBinanceSymbol of ./types: whether a symbol has the shape of a hedge-mode
\* venue's symbols.
isBinanceSymbol(symbol) == symbol \in {"BTCUSDT", "ETHUSDT"}

\* firstSymbol.includes('-SWAP') || firstSymbol.includes('-USDT-')
HasOkxShape(symbol) == symbol \in {"BTC-USDT-SWAP", "ETH-USDT-SWAP"}

\* Mutant of ChooseCalculator: the symbol inspected is the last execution's.
ChooseCalculatorFromLast(execs, hint) ==
    LET lastSymbol == execs[Len(execs)].symbol
        isBinance == hint = "binance" \/ isBinanceSymbol(lastSymbol)
        isOkx == hint = "okx" \/ HasOkxShape(lastSymbol)
    IN  IF isBinance \/ isOkx THEN "binance" ELSE "bitmex"

\* The calculator calculatePositionSessionsFromExecutions hands a non-empty
\* list to.
ChooseCalculator(execs, hint) ==
    LET firstSymbol == execs[1].symbol
        isBinance == hint = "binance" \/ isBinanceSymbol(firstSymbol)
        isOkx == hint = "okx" \/ HasOkxShape(firstSymbol)
    IN  IF isBinance \/ isOkx THEN "binance" ELSE "bitmex"

\* ------------------------------------------- the calculators as functions

\* The loop `for (const exec of symbolExecutions)` over the executions left.
RECURSIVE BitMEXWalk(_, _, _)
BitMEXWalk(w, items, symbol) ==
    IF items = <<>> THEN w
    ELSE BitMEXWalk(BitMEXProcessExecution(w, Head(items), symbol),
                    Tail(items), symbol)

\* executionsBySymbol.forEach over the groups left: the callback declares its
\* locals, sorts, walks and handles the remaining open position; allSessions
\* and globalSessionId are the enclosing function's.
RECURSIVE BitMEXForEachSymbol(_, _)
BitMEXForEachSymbol(w, groups) ==
    IF groups = <<>> THEN w
    ELSE LET symbol == Head(groups).key
             walked == BitMEXWalk(FreshWalk(w.allSessions, w.globalSessionId),
                                  SortByTimestamp(Head(groups).items), symbol)
         IN  BitMEXForEachSymbol(BitMEXFinishSymbol(walked, symbol), Tail(groups))

calculateBitMEXPositionSessions(execs) ==
    SortSessionsNewestFirst(
        BitMEXForEachSymbol(FreshWalk(<<>>, 0), GroupBySymbol(execs)).allSessions)

\* The loop `for (const order of orders)` over the orders left.
RECURSIVE BinanceWalk(_, _, _, _)
BinanceWalk(w, orders, symbol, positionSide) ==
    IF orders = <<>> THEN w
    ELSE BinanceWalk(BinanceProcessOrder(w, Head(orders), symbol, positionSide),
                     Tail(orders), symbol, positionSide)

\* executionsByKey.forEach over the groups left.
RECURSIVE BinanceForEachKey(_, _)
BinanceForEachKey(w, groups) ==
    IF groups = <<>> THEN w
    ELSE LET symbol == Head(groups).key[1]
             positionSide == Head(groups).key[2]
             orders == SortByTimestamp(
                           AggregateByOrderID(Head(groups).items, positionSide))
             walked == BinanceWalk(FreshWalk(w.allSessions, w.globalSessionId),
                                   orders, symbol, positionSide)
         IN  BinanceForEachKey(BinanceFinishPartition(walked, symbol, positionSide),
                               Tail(groups))

calculateBinancePositionSessions(execs) ==
    SortSessionsNewestFirst(
        BinanceForEachKey(FreshWalk(<<>>, 0), GroupByKey(execs)).allSessions)

calculatePositionSessionsFromExecutions(execs, hint) ==
    IF Len(execs) = 0 THEN <<>>
    ELSE IF ChooseCalculator(execs, hint) = "binance"
         THEN calculateBinancePositionSessions(execs)
         ELSE calculateBitMEXPositionSessions(execs)

\* ------------------------------------ data loader (src/unnamed/part_004)

\* A cache field: null, or the array it holds.  An array, even an empty one,
\* is truthy.
NotLoaded == <<>>
Loaded(array) == <<array>>
IsLoaded(field) == field # NotLoaded
ArrayOf(field) == field[1]

\* The entry cacheStore[exchange] as the module and clearCache leave it.
ColdCache ==
    [executions |-> NotLoaded, trades |-> NotLoaded, orders |-> NotLoaded,
     wallet |-> NotLoaded, accountSummary |-> NotLoaded, sessions |-> NotLoaded]

\* formatSymbol(symbol) with its default exchange, on the symbols of the
\* model: the BitMEX table, else 'XBT' replaced by 'BTC'.
formatSymbol(symbol) ==
    IF symbol = "XBTUSD" THEN "BTCUSD"
    ELSE IF symbol = "XBTUSDT" THEN "BTCUSDT"
    ELSE symbol

\* toInternalSymbol(displaySymbol, exchange), on the symbols of the model.
toInternalSymbol(displaySymbol, exchange) ==
    IF exchange = "bitmex"
    THEN IF displaySymbol = "BTCUSD" THEN "XBTUSD"
         ELSE IF displaySymbol = "BTCUSDT" THEN "XBTUSDT"
         ELSE displaySymbol
    ELSE IF exchange = "okx"
    THEN IF displaySymbol = "BTCUSDT" THEN "BTC-USDT-SWAP"
         ELSE IF displaySymbol = "ETHUSDT" THEN "ETH-USDT-SWAP"
         ELSE IF displaySymbol = "BTCUSD" THEN "BTC-USD-SWAP"
         ELSE IF displaySymbol = "ETHUSD" THEN "ETH-USD-SWAP"
         ELSE displaySymbol
    ELSE displaySymbol

\* The Execution the loader makes of one record of the executions file; the
\* numeric columns hold numerals.
LoadedExecution(record) ==
    [execID |-> record.execID, orderID |-> record.orderID, symbol |-> record.symbol,
     displaySymbol |-> formatSymbol(record.symbol), side |-> record.side,
     lastQty |-> record.lastQty, lastPx |-> record.lastPx,
     execType |-> record.execType, execCost |-> record.execCost,
     execComm |-> record.execComm, timestamp |-> record.timestamp,
     text |-> record.text]

\* A loader function gives back the cache entry as it leaves it and the value
\* it returns.
Outcome(store, value) == [store |-> store, value |-> value]

\* loadExecutionsFromCSV(exchange), the file `file` existing.
loadExecutionsFromCSV(store, file) ==
    IF IsLoaded(store.executions) THEN Outcome(store, ArrayOf(store.executions))
    ELSE LET mapped == [i \in 1..Len(file) |-> LoadedExecution(file[i])]
         IN  Outcome([store EXCEPT !.executions = Loaded(mapped)], mapped)

\* e.execType === 'Trade' && e.side && e.lastQty > 0 && e.orderID
NoOrderId == 0
IsLoaderTrade(e) ==
    e.execType = "Trade" /\ e.side # "" /\ e.lastQty > 0 /\ e.orderID # NoOrderId

\* The Trade of one order: its fills sorted by timestamp, the first of them
\* giving datetime, symbol and side.
AggregatedTrade(orderID, orderExecs, exchange) ==
    LET execs == SortByTimestamp(orderExecs)
        firstExec == execs[1]
        totalQty == SumSeq([i \in 1..Len(execs) |-> execs[i].lastQty])
        totalCost == SumSeq([i \in 1..Len(execs) |-> Abs(execs[i].execCost)])
        totalFee == SumSeq([i \in 1..Len(execs) |-> execs[i].execComm])
        weightedPriceSum ==
            SumSeq([i \in 1..Len(execs) |-> execs[i].lastPx * execs[i].lastQty])
        avgPrice == IF totalQty > 0 THEN Frac(weightedPriceSum, totalQty)
                    ELSE Frac(firstExec.lastPx, 1)
        feeCurrency == IF exchange = "binance" \/ exchange = "okx" THEN "USDT"
                       ELSE "XBT"
    IN  [id |-> orderID, datetime |-> firstExec.timestamp,
         symbol |-> firstExec.symbol, displaySymbol |-> firstExec.displaySymbol,
         side |-> toLowerCase(firstExec.side), price |-> avgPrice,
         amount |-> totalQty, cost |-> totalCost,
         fee |-> [cost |-> totalFee, currency |-> feeCurrency],
         orderID |-> orderID, execType |-> firstExec.execType,
         executionCount |-> Len(execs)]

\* loadTradesFromCSV(exchange): the cached array if there is one; else one
\* trade per order id, in order of first appearance, then sorted by datetime.
loadTradesFromCSV(store, file, exchange) ==
    IF IsLoaded(store.trades) THEN Outcome(store, ArrayOf(store.trades))
    ELSE
      LET loadedExecs == loadExecutionsFromCSV(store, file)
          tradeExecutions == SelectSeq(loadedExecs.value, IsLoaderTrade)
          orderIDs == FirstOccurrences(
                          [i \in 1..Len(tradeExecutions) |-> tradeExecutions[i].orderID],
                          <<>>)
          trades == [k \in 1..Len(orderIDs) |->
                        AggregatedTrade(
                            orderIDs[k],
                            SelectSeq(tradeExecutions,
                                      LAMBDA e : e.orderID = orderIDs[k]),
                            exchange)]
          sorted == SortTradesByDatetime(trades)
      IN  Outcome([loadedExecs.store EXCEPT !.trades = Loaded(sorted)], sorted)

\* sort((a, b) => new Date(b.datetime).getTime() - new Date(a.datetime).getTime()):
\* descending and stable.
RECURSIVE InsertTradeNewestFirst(_, _)
InsertTradeNewestFirst(x, sorted) ==
    IF sorted = <<>> THEN <<x>>
    ELSE IF SortCompare(Minus(getTime(x.datetime),
                              getTime(sorted[Len(sorted)].datetime))) <= 0
         THEN Append(sorted, x)
         ELSE Append(InsertTradeNewestFirst(x, SubSeq(sorted, 1, Len(sorted) - 1)),
                     sorted[Len(sorted)])

RECURSIVE SortTradesNewestFirstFrom(_, _)
SortTradesNewestFirstFrom(s, sorted) ==
    IF s = <<>> THEN sorted
    ELSE SortTradesNewestFirstFrom(Tail(s), InsertTradeNewestFirst(Head(s), sorted))

SortTradesNewestFirst(s) == SortTradesNewestFirstFrom(s, <<>>)

\* The symbol argument left out (undefined).
NoSymbol == ""

\* t.symbol === symbol || t.symbol === internalSymbol || t.displaySymbol === symbol
MatchesSymbol(t, symbol, exchange) ==
    \/ t.symbol = symbol
    \/ t.symbol = toInternalSymbol(symbol, exchange)
    \/ t.displaySymbol = symbol

\* Array.prototype.slice(start, end) with 0 <= start <= end.
Slice(s, start, end) == SubSeq(s, start + 1, Min(end, Len(s)))

\* getPaginatedTrades(page, limit, symbol, exchange).  Array.prototype.filter
\* makes a new array and Array.prototype.sort sorts the array it is called on:
\* with a symbol the array sorted is the filter's, without one it is
\* allTrades, the array the cache holds.
getPaginatedTrades(store, file, page, limit, symbol, exchange) ==
    LET loadedTrades == loadTradesFromCSV(store, file, exchange)
        allTrades == loadedTrades.value
        filtered == IF symbol # NoSymbol
                    THEN SelectSeq(allTrades, LAMBDA t : MatchesSymbol(t, symbol, exchange))
                    ELSE allTrades
        sorted == SortTradesNewestFirst(filtered)
        start == (page - 1) * limit
        end == start + limit
    IN  Outcome(IF symbol # NoSymbol THEN loadedTrades.store
                ELSE [loadedTrades.store EXCEPT !.trades = Loaded(sorted)],
                [trades |-> Slice(sorted, start, end), total |-> Len(sorted)])

\* getBucketTime for the timeframes '1h' and '1d', in a process whose time
\* zone is UTC: the start of the hour or day, in seconds.
HourMs == 60 * 60 * 1000
PeriodMs(timeframe) == IF timeframe = "1h" THEN HourMs ELSE 24 * HourMs
getBucketTime(timestamp, timeframe) ==
    (timestamp - (timestamp % PeriodMs(timeframe))) \div 1000

FracMax(a, b) == IF a.num * b.den >= b.num * a.den THEN a ELSE b
FracMin(a, b) == IF a.num * b.den <= b.num * a.den THEN a ELSE b

\* The candle of bucket `time`: open, high, low, close and volume of the
\* bucket's trades, in the order of the sorted list.
RECURSIVE CandleOver(_, _)
CandleOver(trades, candle) ==
    IF trades = <<>> THEN candle
    ELSE LET t == Head(trades)
         IN  CandleOver(Tail(trades),
                        [candle EXCEPT !.high = FracMax(@, t.price),
                                       !.low = FracMin(@, t.price),
                                       !.close = t.price,
                                       !.volume = @ + t.amount])

Candle(time, trades) ==
    CandleOver(trades, [time |-> time, open |-> trades[1].price,
                        high |-> trades[1].price, low |-> trades[1].price,
                        close |-> trades[1].price, volume |-> 0])

\* The last 'buy' marker and the last 'sell' marker of a bucket.
LastMarkers(time, trades) ==
    LET buys == SelectSeq(trades, LAMBDA t : t.side = "buy")
        sells == SelectSeq(trades, LAMBDA t : t.side = "sell")
        Marker(t, shape) == [time |-> time, shape |-> shape,
                             amount |-> t.amount, price |-> t.price]
    IN  (IF buys = <<>> THEN <<>> ELSE <<Marker(buys[Len(buys)], "arrowUp")>>)
        \o (IF sells = <<>> THEN <<>> ELSE <<Marker(sells[Len(sells)], "arrowDown")>>)

RECURSIVE SortAscending(_)
SortAscending(S) ==
    IF S = {} THEN <<>>
    ELSE LET least == CHOOSE x \in S : \A y \in S : x <= y
         IN  <<least>> \o SortAscending(S \ {least})

RECURSIVE Concat(_)
Concat(ss) == IF ss = <<>> THEN <<>> ELSE Head(ss) \o Concat(Tail(ss))

\* getOHLCData(symbol, timeframe, exchange): the sort is on the filter's
\* array; the cache is read, never written past loadTradesFromCSV.
getOHLCData(store, file, symbol, timeframe, exchange) ==
    LET loadedTrades == loadTradesFromCSV(store, file, exchange)
        filtered == SortTradesByDatetime(
                        SelectSeq(loadedTrades.value,
                                  LAMBDA t : MatchesSymbol(t, symbol, exchange)))
        BucketOf(t) == getBucketTime(getTime(t.datetime), timeframe)
        times == SortAscending({BucketOf(filtered[i]) : i \in 1..Len(filtered)})
        In(k) == SelectSeq(filtered, LAMBDA t : BucketOf(t) = times[k])
    IN  Outcome(loadedTrades.store,
                [candles |-> [k \in 1..Len(times) |-> Candle(times[k], In(k))],
                 markers |-> Concat([k \in 1..Len(times) |->
                                        LastMarkers(times[k], In(k))])])

\* The orders file and the wallet history file hold their header lines only.
OrdersFile == <<>>
WalletFile == <<>>

\* loadOrdersFromCSV(exchange) and loadWalletHistoryFromCSV(exchange), the
\* files existing.
loadOrdersFromCSV(store) ==
    IF IsLoaded(store.orders) THEN Outcome(store, ArrayOf(store.orders))
    ELSE Outcome([store EXCEPT !.orders = Loaded(OrdersFile)], OrdersFile)

loadWalletHistoryFromCSV(store) ==
    IF IsLoaded(store.wallet) THEN Outcome(store, ArrayOf(store.wallet))
    ELSE Outcome([store EXCEPT !.wallet = Loaded(WalletFile)], WalletFile)

\* t.datetime.split('T')[0]: the day of an instant.
DateOf(t) == getTime(t) \div (24 * HourMs)

\* calculateTradingStats(exchange), on empty orders and wallet: the counts
\* taken from the trades; every sum over orders or wallet entries is 0 and
\* monthlyPnl is empty.
calculateTradingStats(store, file, exchange) ==
    LET loadedTrades == loadTradesFromCSV(store, file, exchange)
        loadedOrders == loadOrdersFromCSV(loadedTrades.store)
        loadedWallet == loadWalletHistoryFromCSV(loadedOrders.store)
        trades == loadedTrades.value
        tradingDays == Cardinality({DateOf(trades[i].datetime) : i \in 1..Len(trades)})
    IN  Outcome(loadedWallet.store,
                [totalTrades |-> Len(trades),
                 totalOrders |-> Len(loadedOrders.value),
                 tradingDays |-> tradingDays,
                 avgTradesPerDay |-> IF tradingDays > 0 THEN Frac(Len(trades), tradingDays)
                                     ELSE FracZero,
                 monthlyPnl |-> <<>>])

\* ------------------------------------------------------------------ inputs

\* An execution as the loader hands it over: lastPx is the price of its
\* instant, execComm the commission of one fill.
Execution(execID, orderID, symbol, f, execType, text) ==
    [execID |-> execID, orderID |-> orderID, symbol |-> symbol, side |-> f.side,
     lastQty |-> f.lastQty, lastPx |-> PriceAt(f.timestamp),
     execComm |-> Commission, timestamp |-> f.timestamp,
     execType |-> execType, text |-> text]

\* Execution number i of the input, from fill f, annotated with position-side
\* tag `tag` ("" for no annotation).
MkExecution(i, f, tag) ==
    Execution(i, i, TheSymbol, f, "Trade", Annotation(tag, NoPnlValue))

\* The state a call starts in: nothing dispatched, no group, no session.
StartOfCall ==
    /\ given = executions
    /\ returned = <<>>
    /\ pc = "dispatch"
    /\ calculator = "none"
    /\ partitions = <<>>
    /\ partIndex = 0
    /\ work = <<>>
    /\ cursor = 0
    /\ trace = <<>>
    /\ allSessions = <<>>
    /\ globalSessionId = 0
    /\ runningPosition = 0
    /\ sessionStartTime = Null
    /\ sessionExecutions = <<>>
    /\ sessionOrders = <<>>
    /\ totalBought = 0
    /\ totalSold = 0
    /\ totalBuyCost = 0
    /\ totalSellCost = 0
    /\ totalCommission = 0
    /\ maxPosition = 0
    /\ lastOrderTime = 0
    /\ cacheStore = ColdCache
    /\ calls = <<>>

Init ==
    /\ \E n \in 0..MaxExecs : \E fs \in [1..n -> Fills] :
       \E hint \in ExchangeIds :
       \E tag \in (IF hint = "bitmex" THEN {""} ELSE PositionSideTags) :
          /\ exchangeId = hint
          /\ executions = [i \in 1..n |-> MkExecution(i, fs[i], tag)]
    /\ StartOfCall

\* ----------------------------------------------------------------- actions

walkVars == <<allSessions, globalSessionId, runningPosition, sessionStartTime,
              sessionExecutions, sessionOrders, totalBought, totalSold,
              totalBuyCost, totalSellCost, totalCommission, maxPosition,
              lastOrderTime>>

\* calculatePositionSessionsFromExecutions on an empty list: return [].
ReturnEmpty ==
    /\ pc = "dispatch"
    /\ Len(executions) = 0
    /\ pc' = "done"
    /\ UNCHANGED <<caller, loader, executions, exchangeId, calculator, partitions, partIndex,
                   work, cursor, trace, walkVars>>

\* calculatePositionSessionsFromExecutions on a non-empty list: choose the
\* calculator, which filters and groups the executions.
Dispatch ==
    /\ pc = "dispatch"
    /\ Len(executions) > 0
    /\ calculator' = ChooseCalculator(executions, exchangeId)
    /\ partitions' = IF calculator' = "binance" THEN GroupByKey(executions)
                     ELSE GroupBySymbol(executions)
    /\ pc' = "partition"
    /\ UNCHANGED <<caller, loader, executions, exchangeId, partIndex, work, cursor, trace,
                   walkVars>>

\* The inverse calculator enters the callback of the next symbol: sort.
BitMEXStartSymbol ==
    /\ pc = "partition"
    /\ calculator = "bitmex"
    /\ partIndex < Len(partitions)
    /\ partIndex' = partIndex + 1
    /\ work' = SortByTimestamp(partitions[partIndex + 1].items)
    /\ cursor' = 0
    /\ SetWalk(FreshWalk(allSessions, globalSessionId))
    /\ pc' = "walk"
    /\ UNCHANGED <<caller, loader, executions, exchangeId, calculator, partitions, trace>>

\* One iteration of the inverse calculator's loop.
BitMEXStep ==
    /\ pc = "walk"
    /\ calculator = "bitmex"
    /\ cursor < Len(work)
    /\ LET exec == work[cursor + 1]
           symbol == partitions[partIndex].key
           w == BitMEXProcessExecution(Walk, exec, symbol)
       IN  /\ SetWalk(w)
           /\ trace' = Append(trace,
                  [by |-> "bitmex", key |-> symbol, item |-> exec.execID,
                   timestamp |-> exec.timestamp,
                   positionBefore |-> runningPosition,
                   positionAfter |-> w.runningPosition,
                   positionEnd |-> w.runningPosition,
                   idBefore |-> globalSessionId,
                   idAfter |-> w.globalSessionId,
                   gapFired |-> FALSE,
                   idAfterGap |-> globalSessionId,
                   pendingBefore |-> Len(sessionExecutions)])
    /\ cursor' = cursor + 1
    /\ UNCHANGED <<caller, loader, executions, exchangeId, pc, calculator, partitions,
                   partIndex, work>>

\* The inverse calculator leaves the loop of a symbol.
BitMEXEndSymbol ==
    /\ pc = "walk"
    /\ calculator = "bitmex"
    /\ cursor = Len(work)
    /\ SetWalk(BitMEXFinishSymbol(Walk, partitions[partIndex].key))
    /\ pc' = "partition"
    /\ UNCHANGED <<caller, loader, executions, exchangeId, calculator, partitions, partIndex,
                   work, cursor, trace>>

\* The hedge-mode calculator enters the callback of the next key: aggregate
\* by order id and sort the orders.
BinanceStartPartition ==
    /\ pc = "partition"
    /\ calculator = "binance"
    /\ partIndex < Len(partitions)
    /\ partIndex' = partIndex + 1
    /\ work' = SortByTimestamp(
                   AggregateByOrderID(partitions[partIndex + 1].items,
                                      partitions[partIndex + 1].key[2]))
    /\ cursor' = 0
    /\ SetWalk(FreshWalk(allSessions, globalSessionId))
    /\ pc' = "walk"
    /\ UNCHANGED <<caller, loader, executions, exchangeId, calculator, partitions, trace>>

\* One iteration of the hedge-mode calculator's loop.
BinanceStep ==
    /\ pc = "walk"
    /\ calculator = "binance"
    /\ cursor < Len(work)
    /\ LET order == work[cursor + 1]
           key == partitions[partIndex].key
           gap == BinanceTimeGapCheck(Walk, order, key[1], key[2])
           w == BinanceProcessOrder(Walk, order, key[1], key[2])
       IN  /\ SetWalk(w)
           /\ trace' = Append(trace,
                  [by |-> "binance", key |-> key, item |-> order.orderID,
                   timestamp |-> order.timestamp,
                   positionBefore |-> runningPosition,
                   positionAfter |-> gap.runningPosition
                                       + getPositionDelta(order, key[2]),
                   positionEnd |-> w.runningPosition,
                   idBefore |-> globalSessionId,
                   idAfter |-> w.globalSessionId,
                   gapFired |-> BinanceTimeGapFires(Walk, order),
                   idAfterGap |-> gap.globalSessionId,
                   pendingBefore |-> Len(sessionOrders)])
    /\ cursor' = cursor + 1
    /\ UNCHANGED <<caller, loader, executions, exchangeId, pc, calculator, partitions,
                   partIndex, work>>

\* The hedge-mode calculator leaves the loop of a key.
BinanceEndPartition ==
    /\ pc = "walk"
    /\ calculator = "binance"
    /\ cursor = Len(work)
    /\ SetWalk(BinanceFinishPartition(Walk, partitions[partIndex].key[1],
                                      partitions[partIndex].key[2]))
    /\ pc' = "partition"
    /\ UNCHANGED <<caller, loader, executions, exchangeId, calculator, partitions, partIndex,
                   work, cursor, trace>>

\* After the last group: sort the sessions, newest first, and return them.
FinalSort ==
    /\ pc = "partition"
    /\ partIndex = Len(partitions)
    /\ allSessions' = SortSessionsNewestFirst(allSessions)
    /\ pc' = "done"
    /\ UNCHANGED <<caller, loader, executions, exchangeId, calculator, partitions, partIndex,
                   work, cursor, trace, globalSessionId, runningPosition,
                   sessionStartTime, sessionExecutions, sessionOrders,
                   totalBought, totalSold, totalBuyCost, totalSellCost,
                   totalCommission, maxPosition, lastOrderTime>>

Next ==
    \/ ReturnEmpty
    \/ Dispatch
    \/ BitMEXStartSymbol
    \/ BitMEXStep
    \/ BitMEXEndSymbol
    \/ BinanceStartPartition
    \/ BinanceStep
    \/ BinanceEndPartition
    \/ FinalSort

Spec == Init /\ [][Next]_vars

\* ------------------------------------------------ two calls on one list

\* Mutant of NewCall: globalSessionId outlives the call.
NewCallKeepingCounter(w) == FreshWalk(<<>>, w.globalSessionId)

\* What a calculator starts from, whatever an earlier call left:
\* const allSessions = []; let globalSessionId = 0.
NewCall(w) == FreshWalk(<<>>, 0)

\* The caller keeps the result and calls again with the same arguments.
CallAgain ==
    /\ pc = "done"
    /\ returned = <<>>
    /\ returned' = Append(returned, allSessions)
    /\ pc' = "dispatch"
    /\ calculator' = "none"
    /\ partitions' = <<>>
    /\ partIndex' = 0
    /\ work' = <<>>
    /\ cursor' = 0
    /\ trace' = <<>>
    /\ SetWalk(NewCall(Walk))
    /\ UNCHANGED <<given, executions, exchangeId, loader>>

NextTwoCalls == Next \/ CallAgain

\* The steps of a call the dispatcher hands to the hedge-mode calculator.
NextHedge ==
    \/ Dispatch
    \/ BinanceStartPartition
    \/ BinanceStep
    \/ BinanceEndPartition
    \/ FinalSort

\* The steps of a call, taken one after the other, return what the function
\* returns.
StepsAgreeWithFunction ==
    pc = "done" =>
        allSessions = calculatePositionSessionsFromExecutions(executions, exchangeId)

\* ------------------------------------------------ several books in one call

\* Two books: two symbols for the inverse calculator, the LONG and the SHORT
\* side of one symbol for the hedge-mode calculator.
Books == {1, 2}
BookSymbols == <<"XBTUSD", "ETHUSD">>
BookTags == <<"LONG", "SHORT">>
BookQuantities == {1, 2}
BookFills == [side : Sides, lastQty : BookQuantities, timestamp : Timestamps]

InitPartitions ==
    /\ \E n \in 0..MaxExecs : \E fs \in [1..n -> BookFills] :
       \E book \in [1..n -> Books] : \E hint \in ExchangeIds :
          /\ exchangeId = hint
          /\ executions =
                [i \in 1..n |->
                    IF hint = "bitmex"
                    THEN Execution(i, i, BookSymbols[book[i]], fs[i], "Trade",
                                   Annotation("", NoPnlValue))
                    ELSE Execution(i, i, TheSymbol, fs[i], "Trade",
                                   Annotation(BookTags[book[i]], NoPnlValue))]
    /\ StartOfCall

SpecPartitions == InitPartitions /\ [][Next]_vars

\* ------------------------------------------- executions the filter should drop

\* What may be wrong with an execution: nothing, its type (a funding record),
\* a zero or a negative quantity, an empty order identifier.
Defects == {"none", "execType", "zeroQty", "negativeQty", "orderID"}
FilterSymbols == {"XBTUSD", "BTC-USDT-SWAP"}
FilterHints == {NoHint}
\* Fills of one lot of 0.01.
LotFills == [side : Sides, lastQty : {2}, timestamp : Timestamps]
OrderIdNames == <<"order-1", "order-2", "order-3", "order-4", "order-5">>

\* Execution number i, from fill f, with the defect `defect`.
DefectiveExecution(i, f, symbol, defect) ==
    Execution(i,
              IF defect = "orderID" THEN "" ELSE OrderIdNames[i],
              symbol,
              [f EXCEPT !.lastQty = IF defect = "zeroQty" THEN 0
                                    ELSE IF defect = "negativeQty" THEN -1 ELSE @],
              IF defect = "execType" THEN "Funding" ELSE "Trade",
              Annotation("", NoPnlValue))

InitFilter ==
    /\ \E n \in 0..MaxExecs : \E fs \in [1..n -> LotFills] :
       \E symbols \in [1..n -> FilterSymbols] : \E defects \in [1..n -> Defects] :
       \E hint \in FilterHints :
          /\ exchangeId = hint
          /\ executions = [i \in 1..n |->
                              DefectiveExecution(i, fs[i], symbols[i], defects[i])]
    /\ StartOfCall

SpecFilter == InitFilter /\ [][Next]_vars

\* --------------------------------------------- timestamps Date cannot parse

\* One instant and an unparsable timestamp: every pair of elements compares
\* equal or NaN, the comparators are consistent and every sort keeps the
\* order it is given.
DatedTimestamps == {1, InvalidDate}
DatedFills == [side : Sides, lastQty : BookQuantities, timestamp : DatedTimestamps]

InitInvalidDates ==
    /\ \E n \in 0..MaxExecs : \E fs \in [1..n -> DatedFills] :
       \E hint \in ExchangeIds :
          /\ exchangeId = hint
          /\ executions = [i \in 1..n |->
                  MkExecution(i, fs[i], IF hint = "bitmex" THEN "" ELSE "LONG")]
    /\ StartOfCall

SpecInvalidDates == InitInvalidDates /\ [][Next]_vars

\* ------------------------------------------------------ annotation texts

\* The words a list's executions carry after positionSide, and what each
\* execution carries after realizedPnl.
TagWords == {"", "NET", "LONG", "long", "SHORT"}
PnlTexts == {NoPnlValue, DotsOnly, PnlValue(5)}

InitAnnotations ==
    /\ \E n \in 1..MaxExecs : \E fs \in [1..n -> LotFills] :
       \E pnls \in [1..n -> PnlTexts] : \E tag \in TagWords :
          executions = [i \in 1..n |->
                           Execution(i, i, TheSymbol, fs[i], "Trade",
                                     Annotation(tag, pnls[i]))]
    /\ exchangeId = "binance"
    /\ StartOfCall

SpecAnnotations == InitAnnotations /\ [][NextHedge]_vars

\* ------------------------------------------------ hints and symbol shapes

\* Every ExchangeType, and no hint; an inverse-shaped and an OKX-shaped
\* symbol.
DispatchHints == {NoHint, "bitmex", "binance", "okx", "bybit"}
DispatchSymbols == {"XBTUSD", "BTC-USDT-SWAP"}

InitDispatch ==
    /\ \E n \in 0..MaxExecs : \E fs \in [1..n -> LotFills] :
       \E symbols \in [1..n -> DispatchSymbols] : \E hint \in DispatchHints :
          /\ exchangeId = hint
          /\ executions = [i \in 1..n |->
                              Execution(i, i, symbols[i], fs[i], "Trade",
                                        Annotation("", NoPnlValue))]
    /\ StartOfCall

SpecDispatch == InitDispatch /\ [][Next]_vars

SpecTwoCalls == InitPartitions /\ [][NextTwoCalls]_vars

\* ------------------------------------------------ orders of several fills

\* Two orders, each of one symbol and one side, filled by any number of the
\* executions, at one instant or at two.
OrderIds == {1, 2}
PartialFills == [orderID : OrderIds, lastQty : {2}, timestamp : Timestamps]

InitReorder ==
    /\ \E n \in 0..MaxExecs : \E fs \in [1..n -> PartialFills] :
       \E side \in [OrderIds -> Sides] : \E book \in [OrderIds -> Books] :
       \E hint \in ExchangeIds :
          /\ exchangeId = hint
          /\ executions = [i \in 1..n |->
                  Execution(i, fs[i].orderID, BookSymbols[book[fs[i].orderID]],
                      [side |-> side[fs[i].orderID], lastQty |-> fs[i].lastQty,
                       timestamp |-> fs[i].timestamp],
                      "Trade",
                      Annotation(IF hint = "bitmex" THEN "" ELSE "LONG",
                                 NoPnlValue))]
    /\ StartOfCall

SpecReorder == InitReorder /\ [][Next]_vars

\* --------------------------------------- two round trips in one LONG book

\* Four orders of one hedge-mode LONG partition, at three instants three
\* hours apart.
RoundTripOrders == 1..4
RoundTripInstants == {1, 2, 3}
RoundTripFills == [side : Sides, lastQty : Quantities, timestamp : RoundTripInstants]

InitRoundTrips ==
    /\ \E fs \in [RoundTripOrders -> RoundTripFills] :
          executions = [i \in RoundTripOrders |-> MkExecution(i, fs[i], "LONG")]
    /\ exchangeId = "binance"
    /\ StartOfCall

SpecRoundTrips == InitRoundTrips /\ [][NextHedge]_vars

\* ------------------------------------------- commissions of either sign

\* A rebate: a commission the venue pays, execComm < 0.
Rebate == -100
Commissions == {Rebate, Commission}
\* Fills of one or two lots of 0.01, each with its own commission.
FeeFills == [side : Sides, lastQty : {2, 4}, timestamp : Timestamps,
             execComm : Commissions]

\* Hedge-mode executions report a realized PnL of 5 each.
InitFees ==
    /\ \E n \in 0..MaxExecs : \E fs \in [1..n -> FeeFills] :
       \E hint \in ExchangeIds :
       \E tag \in (IF hint = "bitmex" THEN {""} ELSE PositionSideTags) :
          /\ exchangeId = hint
          /\ executions =
                [i \in 1..n |->
                    [Execution(i, i, TheSymbol, fs[i], "Trade",
                               Annotation(tag, IF hint = "bitmex" THEN NoPnlValue
                                               ELSE PnlValue(5)))
                        EXCEPT !.execComm = fs[i].execComm]]
    /\ StartOfCall

SpecFees == InitFees /\ [][Next]_vars

\* ------------------------------------- realized PnL reported on each fill

\* A buy order and a sell order of one hedge-mode partition, each filled by
\* any number of the executions; every fill reports a realized PnL, a gain of
\* 5 or a loss of 3.
ReportedPnls == {PnlValue(5), PnlValue(-3)}
OrderSides == <<"Buy", "Sell">>
PnlFills == [orderID : OrderIds, lastQty : {2, 4}, timestamp : Timestamps,
             pnl : ReportedPnls]

InitOrderPnl ==
    /\ \E n \in 1..MaxExecs : \E fs \in [1..n -> PnlFills] :
       \E tag \in PositionSideTags :
          executions =
              [i \in 1..n |->
                  Execution(i, fs[i].orderID, TheSymbol,
                      [side |-> OrderSides[fs[i].orderID],
                       lastQty |-> fs[i].lastQty, timestamp |-> fs[i].timestamp],
                      "Trade", Annotation(tag, fs[i].pnl))]
    /\ exchangeId = "binance"
    /\ StartOfCall

SpecOrderPnl == InitOrderPnl /\ [][NextHedge]_vars

\* ------------------------------------------ partial fills at three instants

\* Two orders of one hedge-mode partition, each of one side, filled by any
\* number of the executions in parts of 0.005 or 0.01, at any of three
\* instants.
PartQuantities == {1, 2}
SplitFills == [orderID : OrderIds, lastQty : PartQuantities,
               timestamp : RoundTripInstants]

InitPartialFills ==
    /\ \E n \in 1..MaxExecs : \E fs \in [1..n -> SplitFills] :
       \E side \in [OrderIds -> Sides] : \E tag \in PositionSideTags :
          executions =
              [i \in 1..n |->
                  Execution(i, fs[i].orderID, TheSymbol,
                      [side |-> side[fs[i].orderID], lastQty |-> fs[i].lastQty,
                       timestamp |-> fs[i].timestamp],
                      "Trade", Annotation(tag, NoPnlValue))]
    /\ exchangeId = "binance"
    /\ StartOfCall

SpecPartialFills == InitPartialFills /\ [][NextHedge]_vars

\* ------------------------------------------------ calls to the data loader

\* The calls made to the loader in one run of the server.
MaxCalls == 3

\* Each order trades one symbol on one side.
SymbolOfOrder == <<"XBTUSD", "ETHUSD">>
RecordTypes == {"Trade", "Funding"}

\* What the executions file leaves free in one record.
FileFills == [orderID : OrderIds, timestamp : Timestamps, execType : RecordTypes]

\* Record number i of the executions file.
FileRecord(i, f) ==
    [execID |-> i, orderID |-> f.orderID, symbol |-> SymbolOfOrder[f.orderID],
     side |-> OrderSides[f.orderID], lastQty |-> 2, lastPx |-> PriceAt(f.timestamp),
     execType |-> f.execType, execCost |-> 2 * PriceAt(f.timestamp),
     execComm |-> Commission, timestamp |-> f.timestamp,
     text |-> Annotation("", NoPnlValue)]

\* The server starts with a cold cache; executions is the content of the
\* exchange's executions file, which the loader hands to the calculator.
InitLoader ==
    /\ \E n \in 0..MaxExecs : \E fs \in [1..n -> FileFills] :
       \E exchange \in ExchangeIds :
          /\ exchangeId = exchange
          /\ executions = [i \in 1..n |-> FileRecord(i, fs[i])]
    /\ StartOfCall

calculatorVars == <<caller, executions, exchangeId, pc, calculator, partitions,
                    partIndex, work, cursor, trace, walkVars>>

\* The end of a call to the loader: the cache entry is left as the function
\* left it, and the call is noted with what it returned.
Called(fn, symbol, outcome) ==
    /\ cacheStore' = outcome.store
    /\ calls' = Append(calls, [fn |-> fn, symbol |-> symbol, returned |-> outcome.value])

DisplaySymbols == {"BTCUSD"}
PageSize == 2
Timeframes == {"1h", "1d"}

LoadTrades ==
    /\ Len(calls) < MaxCalls
    /\ Called("loadTradesFromCSV", NoSymbol,
              loadTradesFromCSV(cacheStore, executions, exchangeId))
    /\ UNCHANGED calculatorVars

PaginatedTrades ==
    /\ Len(calls) < MaxCalls
    /\ \E symbol \in DisplaySymbols \cup {NoSymbol} :
          Called("getPaginatedTrades", symbol,
                 getPaginatedTrades(cacheStore, executions, 1, PageSize, symbol,
                                    exchangeId))
    /\ UNCHANGED calculatorVars

OHLCData ==
    /\ Len(calls) < MaxCalls
    /\ \E symbol \in DisplaySymbols : \E timeframe \in Timeframes :
          Called("getOHLCData", symbol,
                 getOHLCData(cacheStore, executions, symbol, timeframe, exchangeId))
    /\ UNCHANGED calculatorVars

TradingStats ==
    /\ Len(calls) < MaxCalls
    /\ Called("calculateTradingStats", NoSymbol,
              calculateTradingStats(cacheStore, executions, exchangeId))
    /\ UNCHANGED calculatorVars

NextLoader ==
    \/ LoadTrades
    \/ PaginatedTrades
    \/ OHLCData
    \/ TradingStats

SpecLoader == InitLoader /\ [][NextLoader]_vars

\* ------------------------------------------------- reading a finished walk

SessionIndexes == 1..Len(allSessions)
TraceIndexes == 1..Len(trace)

\* The iteration of the walk that processed execution (inverse) or order
\* (hedge mode) `item`.
StepOf(item) == trace[CHOOSE k \in TraceIndexes : trace[k].item = item]

\* A flip: the iteration took the position across zero.
IsFlipStep(step) ==
    \/ step.positionBefore > 0 /\ step.positionAfter < 0
    \/ step.positionBefore < 0 /\ step.positionAfter > 0

\* The emitted session numbered n.
HasSessionNumbered(n) == \E i \in SessionIndexes : allSessions[i].id.seq = n
SessionNumbered(n) ==
    allSessions[CHOOSE i \in SessionIndexes : allSessions[i].id.seq = n]

\* Whether session s lists execution id among its trades.
HasTrade(s, id) == \E j \in 1..Len(s.trades) : s.trades[j].id = id

\* Quantity and cost of the trades of s on one side ("buy" or "sell").
TradedQty(s, side) ==
    SumSeq([j \in 1..Len(s.trades) |->
               IF s.trades[j].side = side THEN s.trades[j].amount ELSE 0])
TradedCost(s, side) ==
    SumSeq([j \in 1..Len(s.trades) |->
               IF s.trades[j].side = side
               THEN s.trades[j].amount * s.trades[j].price ELSE 0])

\* The session began from a flat position and ended by returning to exactly
\* zero (inverse calculator).
OpenedFromFlat(s) == StepOf(s.trades[1].id).positionBefore = 0
ReturnedToZero(s) == StepOf(s.trades[Len(s.trades)].id).positionAfter = 0

\* ------------------------------------------------------------------ claims

\* C1: in the inverse calculator, a session opened by a buy from a flat
\* position that later returns to exactly zero is emitted closed, long, with
\* avgEntryPrice the quantity-weighted average price of its buy fills and
\* avgExitPrice that of its sell fills; a session opened by a sell is emitted
\* short, with entry from its sells and exit from its buys.
C1_RoundTripSideAndPrices ==
    (pc = "done" /\ calculator = "bitmex") =>
        \A i \in SessionIndexes :
            LET s == allSessions[i]
                opener == s.trades[1].side
                entrySide == opener
                exitSide == IF opener = "buy" THEN "sell" ELSE "buy"
            IN  (OpenedFromFlat(s) /\ ReturnedToZero(s)) =>
                    /\ s.status = "closed"
                    /\ s.side = (IF opener = "buy" THEN "long" ELSE "short")
                    /\ FracEq(s.avgEntryPrice,
                              Frac(TradedCost(s, entrySide), TradedQty(s, entrySide)))
                    /\ FracEq(s.avgExitPrice,
                              Frac(TradedCost(s, exitSide), TradedQty(s, exitSide)))

\* C2: when one execution reverses the sign of the running position in the
\* inverse calculator, exactly two sessions result from it: the session it
\* closes, emitted closed with totalBought = totalSold, and a new session
\* whose only initial trade is this execution and whose totals are seeded
\* with the overflow quantity |new position| at this execution's price.
C2_FlipYieldsTwoSessions ==
    calculator = "bitmex" =>
      /\ (pc = "walk" /\ cursor > 0 /\ IsFlipStep(trace[Len(trace)])) =>
            LET step == trace[Len(trace)]
                exec == work[cursor]
                overflow == Abs(step.positionAfter)
            IN  /\ step.idAfter = step.idBefore + 1
                /\ HasSessionNumbered(step.idBefore)
                /\ SessionNumbered(step.idBefore).status = "closed"
                /\ SessionNumbered(step.idBefore).totalBought
                       = SessionNumbered(step.idBefore).totalSold
                /\ sessionExecutions = <<exec>>
                /\ sessionStartTime = exec.timestamp
                /\ totalBought = (IF exec.side = "Buy" THEN overflow ELSE 0)
                /\ totalSold = (IF exec.side = "Sell" THEN overflow ELSE 0)
                /\ totalBuyCost
                       = (IF exec.side = "Buy" THEN overflow * exec.lastPx ELSE 0)
                /\ totalSellCost
                       = (IF exec.side = "Sell" THEN overflow * exec.lastPx ELSE 0)
      /\ pc = "done" =>
            \A k \in TraceIndexes :
                IsFlipStep(trace[k]) =>
                    LET holders == {i \in SessionIndexes :
                                       HasTrade(allSessions[i], trace[k].item)}
                    IN  /\ Cardinality(holders) = 2
                        /\ \E i \in holders :
                              /\ allSessions[i].id.seq = trace[k].idBefore
                              /\ allSessions[i].status = "closed"
                              /\ allSessions[i].totalBought = allSessions[i].totalSold
                        /\ \E i \in holders :
                              /\ allSessions[i].id.seq > trace[k].idBefore
                              /\ allSessions[i].trades[1].id = trace[k].item
                              /\ allSessions[i].openTime = trace[k].timestamp

\* C2, witness: a finished run of the inverse calculator with a flip.
C2_Witness ==
    /\ pc = "done"
    /\ calculator = "bitmex"
    /\ \E k \in TraceIndexes : IsFlipStep(trace[k])

\* C3: over all sessions emitted by one run of either calculator, each input
\* execution appears in the trades of at most one session.
C3_ExecutionInAtMostOneSession ==
    pc = "done" =>
        \A e \in 1..Len(executions) :
            Cardinality({i \in SessionIndexes :
                            HasTrade(allSessions[i], executions[e].execID)}) <= 1

\* Running position at instant t, from the raw filtered executions and from
\* the trades of the emitted sessions (buy = +amount, sell = -amount).
RawPositionAt(t) ==
    LET kept == SelectSeq(executions, IsTradeExecution)
    IN  SumSeq([j \in 1..Len(kept) |->
                   IF kept[j].timestamp > t THEN 0
                   ELSE IF kept[j].side = "Buy" THEN kept[j].lastQty
                        ELSE -kept[j].lastQty])

SessionReplayAt(s, t) ==
    SumSeq([j \in 1..Len(s.trades) |->
               IF s.trades[j].datetime > t THEN 0
               ELSE IF s.trades[j].side = "buy" THEN s.trades[j].amount
                    ELSE -s.trades[j].amount])

ReplayPositionAt(t) ==
    SumSeq([i \in SessionIndexes |-> SessionReplayAt(allSessions[i], t)])

\* C4: for the inverse calculator, replaying the trades of the emitted
\* sessions in chronological order gives at every timestamp the same running
\* position as summing the filtered raw executions.
C4_ReplayMatchesRaw ==
    (pc = "done" /\ calculator = "bitmex") =>
        \A t \in Timestamps : ReplayPositionAt(t) = RawPositionAt(t)

\* C5: every session the inverse calculator emits with status closed has
\* totalBought equal to totalSold.
C5_ClosedSessionBalanced ==
    calculator = "bitmex" =>
        \A i \in SessionIndexes :
            allSessions[i].status = "closed" =>
                allSessions[i].totalBought = allSessions[i].totalSold

\* C5, witness: a closed session that began from a flip and was closed by
\* another flip.
C5_Witness ==
    /\ pc = "done"
    /\ calculator = "bitmex"
    /\ \E i \in SessionIndexes :
          LET s == allSessions[i]
          IN  /\ s.status = "closed"
              /\ IsFlipStep(StepOf(s.trades[1].id))
              /\ s.trades[1].id # s.trades[Len(s.trades)].id
              /\ IsFlipStep(StepOf(s.trades[Len(s.trades)].id))

MaxOfSet(S) == CHOOSE m \in S : \A x \in S : x <= m

\* The largest |running position| held while session s was the one being
\* accumulated.  In the inverse calculator the execution that flips the
\* position belongs to two sessions: it opens the second with the overflow it
\* leaves, and it flattens the first.
PeakHeld(s) ==
    IF calculator = "bitmex"
    THEN MaxOfSet({IF IsFlipStep(StepOf(s.trades[j].id)) /\ j > 1 THEN 0
                   ELSE Abs(StepOf(s.trades[j].id).positionAfter) :
                       j \in 1..Len(s.trades)})
    ELSE MaxOfSet({Abs(StepOf(s.trades[j].orderID).positionAfter) :
                       j \in 1..Len(s.trades)})

\* C7: each emitted session's maxSize equals the maximum absolute running
\* position held while that session was the one being accumulated, and is
\* greater than zero; for a session closed by a flip the maximum does not
\* include the size of the opposite position the same execution opens.
C7_MaxSizeIsPeakHeld ==
    pc = "done" =>
        \A i \in SessionIndexes :
            /\ allSessions[i].maxSize > 0
            /\ allSessions[i].maxSize = PeakHeld(allSessions[i])

\* The running position a partition ends with, and whether that is flat for
\* the calculator in use.
FinalPosition(key) ==
    trace[MaxOfSet({k \in TraceIndexes : trace[k].key = key})].positionEnd

IsFlat(position) ==
    IF calculator = "binance" THEN isBinancePositionClosed(position)
    ELSE position = 0

\* C8: if, after the last execution, the running position of a symbol
\* (inverse) or of a partition (hedge mode) is not flat, exactly one session
\* with status open is emitted for it, with closeTime null, avgExitPrice 0
\* and realizedPnl 0.
C8_OpenPositionEmitted ==
    pc = "done" =>
        \A p \in 1..Len(partitions) :
            LET key == partitions[p].key
                open == {i \in SessionIndexes :
                            /\ allSessions[i].id.prefix = key
                            /\ allSessions[i].status = "open"}
            IN  ~IsFlat(FinalPosition(key)) =>
                    /\ Cardinality(open) = 1
                    /\ \A i \in open :
                          /\ allSessions[i].closeTime = Null
                          /\ allSessions[i].avgExitPrice = FracZero
                          /\ allSessions[i].realizedPnl = FracZero

\* The iteration moved the position from inside the epsilon band to outside.
LeavesBand(step) ==
    /\ isBinancePositionClosed(step.positionBefore)
    /\ ~isBinancePositionClosed(step.positionAfter)

\* C9: in the hedge-mode calculator, every aggregated order that moves a
\* partition's running position from inside the epsilon band to outside it
\* starts a session whose openTime is that order's timestamp, and that
\* session is emitted: closed when a later order brings the position back
\* into the band, otherwise open.
C9_BandExitStartsEmittedSession ==
    (pc = "done" /\ calculator = "binance") =>
        \A k \in TraceIndexes :
            LeavesBand(trace[k]) =>
                \E i \in SessionIndexes :
                    LET s == allSessions[i]
                    IN  /\ s.id.prefix = trace[k].key
                        /\ s.openTime = trace[k].timestamp
                        /\ \E j \in 1..Len(s.trades) :
                              s.trades[j].orderID = trace[k].item
                        /\ s.status = "closed" <=>
                              \E k2 \in TraceIndexes :
                                  /\ k2 > k
                                  /\ trace[k2].key = trace[k].key
                                  /\ isBinancePositionClosed(trace[k2].positionAfter)

\* C10: in the hedge-mode calculator, when an order arrives more than 2 hours
\* after the previous order of its partition while earlier orders are pending
\* and the running position is within the epsilon band, the pending orders
\* are force-closed into an emitted session before the order is processed.
C10_GapEmitsPendingOrders ==
    calculator = "binance" =>
        \A k \in TraceIndexes :
            trace[k].gapFired =>
                /\ trace[k].idAfterGap = trace[k].idBefore + 1
                /\ HasSessionNumbered(trace[k].idBefore)
                /\ \A j \in 1..Len(SessionNumbered(trace[k].idBefore).trades) :
                      SessionNumbered(trace[k].idBefore).trades[j].orderID
                          # trace[k].item

\* The iteration brought the position back into the epsilon band.
ReturnsToBand(step) ==
    /\ ~isBinancePositionClosed(step.positionBefore)
    /\ isBinancePositionClosed(step.positionAfter)

\* The walk of the one partition was: a buy that leaves the band, a sell that
\* returns to it, and more than BINANCE_SESSION_GAP_MS later a buy that leaves
\* the band and a sell that returns to it.
TwoRoundTripsApart ==
    /\ Len(trace) = 4
    /\ \A k \in 1..4 :
          executions[trace[k].item].side = (IF k \in {1, 3} THEN "Buy" ELSE "Sell")
    /\ LeavesBand(trace[1]) /\ ReturnsToBand(trace[2])
    /\ getTime(trace[3].timestamp) - getTime(trace[2].timestamp)
           > BINANCE_SESSION_GAP_MS
    /\ LeavesBand(trace[3]) /\ ReturnsToBand(trace[4])

\* The ids of the orders session s lists, as a set.
OrdersOf(s) == {s.trades[j].orderID : j \in 1..Len(s.trades)}

\* C11: in one hedge-mode LONG partition, a buy-then-sell round trip that
\* returns the position to flat, followed more than 2 hours later by a second
\* buy-then-sell round trip, yields two separate sessions with status closed,
\* never one merged session.
C11_RoundTripsApartStaySeparate ==
    (pc = "done" /\ TwoRoundTripsApart) =>
        /\ Len(allSessions) = 2
        /\ \A i \in SessionIndexes : allSessions[i].status = "closed"
        /\ \E i, j \in SessionIndexes :
              /\ OrdersOf(allSessions[i]) = {trace[1].item, trace[2].item}
              /\ allSessions[i].openTime = trace[1].timestamp
              /\ allSessions[i].closeTime = trace[2].timestamp
              /\ OrdersOf(allSessions[j]) = {trace[3].item, trace[4].item}
              /\ allSessions[j].openTime = trace[3].timestamp
              /\ allSessions[j].closeTime = trace[4].timestamp

\* C11, witness: a finished run over two round trips three hours apart, the
\* first of which left a residue inside the band.
C11_Witness ==
    /\ pc = "done"
    /\ TwoRoundTripsApart
    /\ trace[2].positionAfter # 0
    /\ Len(allSessions) = 2

\* The partition an execution belongs to under the calculator in use, and
\* the executions of partition `key`, in input order.
PartitionOf(e) == IF calculator = "binance" THEN PartitionKey(e) ELSE e.symbol
PartitionAlone(key) == SelectSeq(executions, LAMBDA e : PartitionOf(e) = key)

\* The emitted sessions of partition `key`, in output order.
SessionsOf(key) == SelectSeq(allSessions, LAMBDA s : s.id.prefix = key)

\* Sessions without the numeric suffix of their ids.
Unnumbered(sessions) ==
    [i \in 1..Len(sessions) |-> [sessions[i] EXCEPT !.id.seq = 0]]

\* The calculator in use, run on the list `execs`.
SameCalculatorOn(execs) ==
    IF calculator = "binance" THEN calculateBinancePositionSessions(execs)
    ELSE calculateBitMEXPositionSessions(execs)

\* C12: the sessions emitted for one partition (a symbol in the inverse
\* calculator, a (symbol, position side) pair in the hedge-mode calculator) are
\* the same, apart from the numeric suffix of their id and their place in the
\* output list, as those of the same calculator run on that partition's
\* executions alone.
C12_PartitionsIndependent ==
    pc = "done" =>
        \A e \in 1..Len(executions) :
            LET key == PartitionOf(executions[e])
            IN  Unnumbered(SessionsOf(key))
                    = Unnumbered(SameCalculatorOn(PartitionAlone(key)))

\* C12, witness: a finished run in which two partitions each have a session
\* and an execution of one stands between two executions of the other.
C12_Witness ==
    /\ pc = "done"
    /\ \E i, j, k \in 1..Len(executions) :
          /\ i < j /\ j < k
          /\ PartitionOf(executions[i]) = PartitionOf(executions[k])
          /\ PartitionOf(executions[i]) # PartitionOf(executions[j])
          /\ SessionsOf(PartitionOf(executions[i])) # <<>>
          /\ SessionsOf(PartitionOf(executions[j])) # <<>>

\* The input without the executions that have an empty order identifier.
WithOrderIds == SelectSeq(executions, LAMBDA e : e.orderID # "")

\* C13: an execution with an empty order identifier is dropped by the filter
\* of both calculators: it appears in no session's trades and changes no
\* session's totals, boundaries or status (the sessions are those of the
\* same calculator on the input without it).
C13_EmptyOrderIdDropped ==
    pc = "done" =>
        /\ \A i \in SessionIndexes : \A j \in 1..Len(allSessions[i].trades) :
              allSessions[i].trades[j].orderID # ""
        /\ allSessions = SameCalculatorOn(WithOrderIds)

\* The input without the executions whose type is not Trade or whose
\* quantity is zero or negative.
WithoutNonTrades ==
    SelectSeq(executions, LAMBDA e : e.execType = "Trade" /\ e.lastQty > 0)

\* C14: executions whose type is not Trade or whose quantity is zero or
\* negative are dropped without an error: the call returns for any input list
\* the same sessions as for that list with those executions removed, wherever
\* in the list they stand (first position included).
C14_NonTradesDropped ==
    pc = "done" =>
        LET onKept == calculatePositionSessionsFromExecutions(WithoutNonTrades,
                                                              exchangeId)
        IN  IF WithoutNonTrades = <<>> \/ calculator = "none"
            THEN allSessions = <<>> /\ onKept = <<>>
            ELSE IF calculator = ChooseCalculator(WithoutNonTrades, exchangeId)
                 THEN allSessions = onKept
                 ELSE allSessions = <<>> /\ onKept = <<>>

\* The input holds a trade execution whose timestamp cannot be parsed.
HasUnparsableTimestamp ==
    \E i \in 1..Len(executions) :
        IsTradeExecution(executions[i]) /\ executions[i].timestamp = InvalidDate

\* C15: if a trade execution's timestamp cannot be parsed into a comparable
\* instant, the call fails with an error surfaced to the caller: it never
\* returns sessions.
C15_UnparsableTimestampFails ==
    HasUnparsableTimestamp => pc # "done"

\* The text carries a number after realizedPnl; it carries a LONG or SHORT
\* tag (in either case of letters).
CarriesPnl(e) == e.text.realizedPnl.matched /\ e.text.realizedPnl.parsed # NaN
CarriesSide(e) == e.text.positionSide \in {"LONG", "long", "SHORT", "short"}

\* The input with the value 0 written into every annotation that carries no
\* parsable realized PnL, and the input with the tag LONG written into every
\* annotation that carries no LONG or SHORT tag.
WithZeroPnl ==
    [i \in 1..Len(executions) |->
        IF CarriesPnl(executions[i]) THEN executions[i]
        ELSE [executions[i] EXCEPT !.text.realizedPnl = PnlValue(0)]]
WithLongTag ==
    [i \in 1..Len(executions) |->
        IF CarriesSide(executions[i]) THEN executions[i]
        ELSE [executions[i] EXCEPT !.text.positionSide = "LONG"]]

\* Sessions without the position side in their ids.
WithoutBook(sessions) ==
    [i \in 1..Len(sessions) |->
        [sessions[i] EXCEPT !.id.prefix = <<sessions[i].symbol>>]]

\* C16: in the hedge-mode calculator an execution whose annotation has no
\* parsable realized-PnL value contributes 0 to its order's realized PnL, and
\* one whose annotation has no LONG or SHORT tag is put in the neutral
\* partition, which is processed with the LONG opening direction; the run is
\* not aborted, and the sessions are those of the input whose annotations
\* carry the value 0.
C16_AnnotationDefaults ==
    /\ (pc = "walk" /\ calculator = "binance") =>
          \A k \in 1..Len(work) :
              /\ work[k].realizedPnl
                     = SumSeq([j \in 1..Len(work[k].executions) |->
                                  IF CarriesPnl(work[k].executions[j])
                                  THEN work[k].executions[j].text.realizedPnl.parsed
                                  ELSE 0])
              /\ \A j \in 1..Len(work[k].executions) :
                    ~CarriesSide(work[k].executions[j]) =>
                        partitions[partIndex].key[2] = "BOTH"
    /\ (pc = "done" /\ calculator = "binance") =>
          /\ allSessions = calculateBinancePositionSessions(WithZeroPnl)
          /\ WithoutBook(allSessions)
                 = WithoutBook(calculateBinancePositionSessions(WithLongTag))

\* C16, witness: a finished run that emitted a closed session in the neutral
\* partition over an execution whose realized PnL reads NaN and one whose
\* realized PnL is a number.
C16_Witness ==
    /\ pc = "done"
    /\ calculator = "binance"
    /\ \E i \in SessionIndexes : \E a, b \in 1..Len(executions) :
          /\ allSessions[i].status = "closed"
          /\ allSessions[i].id.prefix[2] = "BOTH"
          /\ HasTrade(allSessions[i], a) /\ HasTrade(allSessions[i], b)
          /\ executions[a].text = Annotation("NET", DotsOnly)
          /\ executions[b].text = Annotation("NET", PnlValue(5))
          /\ allSessions[i].realizedPnl = Frac(5, 1)

\* The calculator chosen for a list whose one execution has symbol `symbol`.
ChosenFor(symbol, hint) == ChooseCalculator(<<[symbol |-> symbol]>>, hint)

\* C17: when an exchange hint is supplied, the choice of calculator depends
\* on the hint alone: it is the calculator the same hint gives for an
\* inverse-shaped first symbol, whatever the first symbol looks like (so the
\* hint bitmex routes to the inverse calculator).
C17_HintAloneDecides ==
    (calculator # "none" /\ exchangeId # NoHint) =>
        /\ calculator = ChosenFor("XBTUSD", exchangeId)
        /\ exchangeId = "bitmex" => calculator = "bitmex"

\* C18: the dispatcher returns an empty list for an empty input without
\* invoking a calculator, and otherwise picks one calculator per call from
\* the hint and the first element of the input only; every execution of the
\* call, whatever its own symbol shape, is processed by that calculator.
C18_OneCalculatorPerCall ==
    /\ Len(executions) = 0 =>
          calculator = "none" /\ trace = <<>> /\ allSessions = <<>>
    /\ (Len(executions) > 0 /\ pc # "dispatch") =>
          /\ calculator = ChosenFor(executions[1].symbol, exchangeId)
          /\ \A k \in TraceIndexes : trace[k].by = calculator
    /\ (Len(executions) > 0 /\ pc = "done") =>
          \A e \in 1..Len(executions) :
              \E k \in TraceIndexes : trace[k].item = executions[e].execID

\* C18, witness: a finished call without hint whose first symbol is
\* inverse-shaped and whose later symbols are OKX-shaped, all walked by the
\* inverse calculator.
C18_Witness ==
    /\ pc = "done"
    /\ exchangeId = NoHint
    /\ Len(executions) = 3
    /\ executions[1].symbol = "XBTUSD"
    /\ executions[2].symbol = "BTC-USDT-SWAP"
    /\ executions[3].symbol = "BTC-USDT-SWAP"
    /\ \A k \in TraceIndexes : trace[k].by = "bitmex"
    /\ Len(trace) = 3

\* C19: a call leaves its input list unchanged (same elements, same order,
\* same field values) and keeps no state between calls: two successive calls
\* on the same input return equal results, session ids included.
C19_PureFunction ==
    /\ executions = given
    /\ (pc = "done" /\ returned # <<>>) => allSessions = returned[1]

\* C19, witness: the second call has returned, on a list that is not in
\* time order and has sessions in two partitions.
C19_Witness ==
    /\ pc = "done"
    /\ returned # <<>>
    /\ Len(executions) >= 2
    /\ executions[1].timestamp > executions[2].timestamp
    /\ \E i, j \in SessionIndexes :
          /\ allSessions[i].id.prefix # allSessions[j].id.prefix
          /\ allSessions[j].id.seq > 0

\* The reorderings of the input that keep the relative order of executions
\* that have the same symbol and the same timestamp: position i of the
\* reordered list holds execution p[i] of the input.
StableReorderings ==
    {p \in [1..Len(executions) -> 1..Len(executions)] :
        /\ \A i, j \in 1..Len(executions) : i # j => p[i] # p[j]
        /\ \A i, j \in 1..Len(executions) :
              (/\ i < j
               /\ executions[p[i]].symbol = executions[p[j]].symbol
               /\ executions[p[i]].timestamp = executions[p[j]].timestamp)
                  => p[i] < p[j]}

Reordered(p) == [i \in 1..Len(executions) |-> executions[p[i]]]

\* The set of the sessions of a result, identifiers left out.
SessionSet(sessions) ==
    {[sessions[i] EXCEPT !.id = <<>>] : i \in 1..Len(sessions)}

\* C20: for either calculator, reordering the input list in a way that keeps
\* the relative order of executions that have the same symbol and the same
\* timestamp yields the same set of sessions (same boundaries, status,
\* totals and trades), except for session identifiers.
C20_StableReorderSameSessions ==
    pc = "done" =>
        \A p \in StableReorderings :
            SessionSet(SameCalculatorOn(Reordered(p))) = SessionSet(allSessions)


\* C21: for every session emitted by either calculator, closeTime is present
\* exactly when status is closed; when status is open, avgExitPrice and
\* realizedPnl are 0 and netPnl equals minus totalFees; when status is closed,
\* netPnl equals realizedPnl minus totalFees.
C21_OpenAndClosedFields ==
    \A i \in SessionIndexes :
        LET s == allSessions[i]
        IN  /\ s.status \in {"open", "closed"}
            /\ (s.closeTime # Null) <=> (s.status = "closed")
            /\ s.status = "open" =>
                  /\ s.avgExitPrice = FracZero
                  /\ s.realizedPnl = FracZero
                  /\ s.netPnl.of = FracZero /\ s.netPnl.less = s.totalFees
            /\ s.status = "closed" =>
                  s.netPnl.of = s.realizedPnl /\ s.netPnl.less = s.totalFees

\* C21, witness: a finished hedge-mode run that emitted a closed session with
\* a realized PnL and fees, and an open session over an order that reported a
\* realized PnL and paid a commission.
C21_Witness ==
    /\ pc = "done"
    /\ calculator = "binance"
    /\ \E i, j \in SessionIndexes :
          /\ allSessions[i].status = "closed"
          /\ allSessions[i].realizedPnl = Frac(10, 1)
          /\ allSessions[i].totalFees.num > 0
          /\ allSessions[j].status = "open"
          /\ allSessions[j].totalFees.num > 0
          /\ allSessions[j].avgEntryPrice # FracZero


Sign(x) == IF x > 0 THEN 1 ELSE IF x < 0 THEN -1 ELSE 0

\* The sign of a quotient kept as a fraction.
SignOfQuotient(a) == Sign(a.num) * Sign(a.den)

\* The part of its trade j that session s holds: all of it, except that the
\* execution that flips the position gives the session it closes what
\* flattens the position and the session it opens the overflow.
SessionShare(s, j) ==
    LET step == StepOf(s.trades[j].id)
    IN  IF ~IsFlipStep(step) THEN s.trades[j].amount
        ELSE IF j = 1 THEN Abs(step.positionAfter)
             ELSE s.trades[j].amount - Abs(step.positionAfter)

\* Quantity and cost of what session s holds of its fills on one side.
FilledQty(s, side) ==
    SumSeq([j \in 1..Len(s.trades) |->
               IF s.trades[j].side = side THEN SessionShare(s, j) ELSE 0])
FilledCost(s, side) ==
    SumSeq([j \in 1..Len(s.trades) |->
               IF s.trades[j].side = side
               THEN SessionShare(s, j) * s.trades[j].price ELSE 0])

\* qty x (1/entry - 1/exit) for the prices entry = entryCost / entryQty and
\* exit = exitCost / exitQty.
InversePnl(qty, entryQty, entryCost, exitQty, exitCost) ==
    Frac(qty * (entryQty * exitCost - exitQty * entryCost), entryCost * exitCost)

\* Every fill of session s on side a is at a lower price than every fill on
\* side b.
AllBelow(s, a, b) ==
    \A j, k \in 1..Len(s.trades) :
        (s.trades[j].side = a /\ s.trades[k].side = b) =>
            s.trades[j].price < s.trades[k].price

\* C22: for every closed session of the inverse calculator, realizedPnl is
\* closedQty x (1/entry - 1/exit) when the position was long (opened by a
\* buy) and the negation of that when it was short (opened by a sell), with
\* closedQty = min(totalBought, totalSold), entry the average price of the
\* fills in the direction that opened the position and exit that of the
\* fills in the other direction; the same relation holds between the emitted
\* side, avgEntryPrice, avgExitPrice and realizedPnl; so a long opened at a
\* price and closed at a higher one has realizedPnl > 0, and a short opened at
\* a price and closed at a higher one has realizedPnl < 0.
C22_InverseRealizedPnl ==
    (pc = "done" /\ calculator = "bitmex") =>
        \A i \in SessionIndexes :
            LET s == allSessions[i]
                opener == s.trades[1].side
                closer == IF opener = "buy" THEN "sell" ELSE "buy"
                closedQty == Min(s.totalBought, s.totalSold)
                held == InversePnl(closedQty,
                                   FilledQty(s, opener), FilledCost(s, opener),
                                   FilledQty(s, closer), FilledCost(s, closer))
                emitted == InversePnl(closedQty,
                                      s.avgEntryPrice.den, s.avgEntryPrice.num,
                                      s.avgExitPrice.den, s.avgExitPrice.num)
            IN  s.status = "closed" =>
                    /\ closedQty > 0
                    /\ closedQty = FilledQty(s, opener)
                    /\ s.realizedPnl.den = held.den
                    /\ s.realizedPnl.num
                           = (IF opener = "buy" THEN held.num ELSE -held.num)
                    /\ s.realizedPnl.den = emitted.den
                    /\ s.realizedPnl.num
                           = (IF s.side = "long" THEN emitted.num ELSE -emitted.num)
                    /\ AllBelow(s, opener, closer) =>
                           SignOfQuotient(s.realizedPnl) = (IF opener = "buy" THEN 1 ELSE -1)
                    /\ AllBelow(s, closer, opener) =>
                           SignOfQuotient(s.realizedPnl) = (IF opener = "buy" THEN -1 ELSE 1)

\* C22, witness: a long opened at 100 and closed at 110 by the sell that
\* flips the position, emitted with a realized PnL above zero.
C22_Witness ==
    /\ pc = "done"
    /\ calculator = "bitmex"
    /\ \E i \in SessionIndexes :
          LET s == allSessions[i]
          IN  /\ s.status = "closed"
              /\ Len(s.trades) = 2
              /\ s.trades[1].side = "buy" /\ s.trades[1].price = 100
              /\ s.trades[2].side = "sell" /\ s.trades[2].price = 110
              /\ IsFlipStep(StepOf(s.trades[2].id))
              /\ SignOfQuotient(s.realizedPnl) = 1


\* The realized PnL the annotation of execution e reports (0 when it reports
\* none).
ReportedPnl(e) == IF CarriesPnl(e) THEN e.text.realizedPnl.parsed ELSE 0

\* The executions of the input that belong to the orders of session s.
ExecutionsOfOrders(s) ==
    SelectSeq(executions,
              LAMBDA e : /\ IsTradeExecution(e)
                         /\ PartitionKey(e) = s.id.prefix
                         /\ e.orderID \in OrdersOf(s))

\* C23: for every closed session of the hedge-mode calculator, realizedPnl
\* is the sum of the realized-PnL values parsed from the annotations of all
\* executions of the session's orders, whatever their prices (no price
\* reciprocal enters).
C23_HedgeRealizedPnl ==
    (pc = "done" /\ calculator = "binance") =>
        \A i \in SessionIndexes :
            LET s == allSessions[i]
                mine == ExecutionsOfOrders(s)
            IN  s.status = "closed" =>
                    /\ s.realizedPnl.den = 1
                    /\ s.realizedPnl.num
                           = SumSeq([j \in 1..Len(mine) |-> ReportedPnl(mine[j])])
                    /\ Len(mine) = Len(s.trades)

\* C23, witness: a closed session over a buy order of two fills at different
\* prices, one reporting a gain and one a loss, and a sell order reporting a
\* gain.
C23_Witness ==
    /\ pc = "done"
    /\ \E i \in SessionIndexes :
          LET s == allSessions[i]
          IN  /\ s.status = "closed"
              /\ Len(s.trades) = 3
              /\ Cardinality(OrdersOf(s)) = 2
              /\ \E j, k \in 1..3 :
                    /\ s.trades[j].side = "buy" /\ s.trades[k].side = "buy"
                    /\ s.trades[j].price # s.trades[k].price
                    /\ ReportedPnl(executions[s.trades[j].id]) = 5
                    /\ ReportedPnl(executions[s.trades[k].id]) = -3
              /\ s.realizedPnl = Frac(7, 1)


\* The sum of the commissions of the trades of session s, each in full.
CommissionOfTrades(s) == SumSeq([j \in 1..Len(s.trades) |-> s.trades[j].fee])

\* The emitted sessions that list execution id among their trades.
Holders(id) == {i \in SessionIndexes : HasTrade(allSessions[i], id)}

\* C24: when an execution flips the position in the inverse calculator, its
\* commission is counted in full in the commission total (hence totalFees) of
\* the session it closes and again in full in the commission total of the
\* session it opens; no other execution's commission is counted in more than
\* one session.
C24_FlipCommissionCountedTwice ==
    calculator = "bitmex" =>
      /\ \A i \in SessionIndexes :
            allSessions[i].totalFees
                = Frac(Abs(CommissionOfTrades(allSessions[i])), SatoshisPerBTC)
      /\ (pc = "walk" /\ cursor > 0 /\ IsFlipStep(trace[Len(trace)])) =>
            /\ totalCommission = work[cursor].execComm
            /\ HasTrade(SessionNumbered(trace[Len(trace)].idBefore),
                        work[cursor].execID)
      /\ pc = "done" =>
            \A k \in TraceIndexes :
                IF IsFlipStep(trace[k])
                THEN /\ Cardinality(Holders(trace[k].item)) = 2
                     /\ \E i, j \in Holders(trace[k].item) :
                           /\ allSessions[i].id.seq = trace[k].idBefore
                           /\ allSessions[j].id.seq > trace[k].idBefore
                           /\ allSessions[j].trades[1].id = trace[k].item
                ELSE Cardinality(Holders(trace[k].item)) <= 1

\* C24, witness: a buy that paid a commission of 75 and a sell that received
\* a rebate of 100 and flipped the position: the session it closes has fees
\* of 25 and the session it opens fees of 100 (in units of 10^-8).
C24_Witness ==
    /\ pc = "done"
    /\ calculator = "bitmex"
    /\ \E k \in TraceIndexes : \E i, j \in SessionIndexes :
          /\ IsFlipStep(trace[k])
          /\ executions[trace[k].item].execComm = Rebate
          /\ allSessions[i].id.seq = trace[k].idBefore
          /\ allSessions[i].totalFees = Frac(25, SatoshisPerBTC)
          /\ allSessions[j].id.seq = trace[k].idBefore + 1
          /\ allSessions[j].trades[1].id = trace[k].item
          /\ allSessions[j].totalFees = Frac(100, SatoshisPerBTC)


\* The instant a session is ordered by: its closeTime when closed, its
\* openTime when open.
OrderingKey(s) == IF s.status = "closed" THEN s.closeTime ELSE s.openTime

\* C25: the list returned by either calculator is sorted in descending order
\* of the key closeTime for closed sessions and openTime for open sessions
\* (most recent first), across all symbols and partitions of the call.
C25_ReturnedNewestFirst ==
    pc = "done" =>
        \A i, j \in SessionIndexes :
            i < j => getTime(OrderingKey(allSessions[i]))
                         >= getTime(OrderingKey(allSessions[j]))

\* C25, witness: a returned list in which a session of one partition stands
\* before an older session of another partition that was emitted earlier, one
\* of the two closed and the other open.
C25_Witness ==
    /\ pc = "done"
    /\ \E i, j \in SessionIndexes :
          /\ i < j
          /\ allSessions[i].id.prefix # allSessions[j].id.prefix
          /\ allSessions[i].id.seq > allSessions[j].id.seq
          /\ OrderingKey(allSessions[i]) > OrderingKey(allSessions[j])
          /\ allSessions[i].status # allSessions[j].status


\* C26: totalFees of every emitted session is non-negative, whatever the
\* signs of the input commissions (negative rebates and mixed signs
\* included).
C26_FeesNonNegative ==
    \A i \in SessionIndexes :
        /\ allSessions[i].totalFees.den > 0
        /\ allSessions[i].totalFees.num >= 0

\* C26, witness: a returned list with a session whose executions all
\* received rebates and a session whose executions paid a commission and
\* received a larger rebate in total.
C26_Witness ==
    /\ pc = "done"
    /\ \E i, j \in SessionIndexes :
          /\ \A k \in 1..Len(allSessions[i].trades) :
                allSessions[i].trades[k].fee < 0
          /\ allSessions[i].totalFees.num > 0
          /\ \E k \in 1..Len(allSessions[j].trades) :
                allSessions[j].trades[k].fee > 0
          /\ CommissionOfTrades(allSessions[j]) < 0
          /\ allSessions[j].totalFees.num > 0


\* The fills of the order of execution e: the executions of its partition
\* that have its order id, as positions of the input.
FillsOfOrder(e) ==
    {k \in 1..Len(executions) :
        /\ PartitionKey(executions[k]) = PartitionKey(e)
        /\ executions[k].orderID = e.orderID}

EarliestOf(S) == CHOOSE t \in S : \A u \in S : t <= u

\* The input with every order filled at once: the first listed fill of each
\* order stands for the whole order, with the order's total quantity and the
\* earliest of its fills' timestamps, and the order's other fills are gone.
FilledAtOnce ==
    LET firsts == SelectSeq([k \in 1..Len(executions) |-> k],
                     LAMBDA k : \A m \in FillsOfOrder(executions[k]) : k <= m)
    IN  [n \in 1..Len(firsts) |->
            LET e == executions[firsts[n]]
                fills == FillsOfOrder(e)
            IN  [e EXCEPT
                   !.lastQty = SumSeq([k \in 1..Len(executions) |->
                                   IF k \in fills THEN executions[k].lastQty ELSE 0]),
                   !.timestamp = EarliestOf({executions[k].timestamp : k \in fills})]]

\* Boundaries, status and quantity totals of each session of a result.
Outline(sessions) ==
    [i \in 1..Len(sessions) |->
        [symbol |-> sessions[i].symbol, side |-> sessions[i].side,
         openTime |-> sessions[i].openTime, closeTime |-> sessions[i].closeTime,
         status |-> sessions[i].status,
         totalBought |-> sessions[i].totalBought,
         totalSold |-> sessions[i].totalSold,
         maxSize |-> sessions[i].maxSize]]

\* C27: in the hedge-mode calculator, all executions sharing an order
\* identifier within a partition act as one position change applied at the
\* earliest of their timestamps: a list in which an order is filled in several
\* parts yields sessions with the same boundaries, statuses and quantity
\* totals as the list in which the order has, in the place of its first
\* listed part, a single fill of the same side, the total quantity and the
\* earliest timestamp, even when other orders' timestamps fall between the
\* parts.
C27_PartialFillsActAsOne ==
    (pc = "done" /\ calculator = "binance") =>
        Outline(allSessions)
            = Outline(calculateBinancePositionSessions(FilledAtOnce))

\* C27, witness: an order filled in two parts, the second listed first and
\* two instants later than the first, with the other order's only fill at the
\* instant between; the other order closes the session the first one opened.
C27_Witness ==
    /\ pc = "done"
    /\ Len(executions) = 3
    /\ executions[1].orderID = executions[3].orderID
    /\ executions[2].orderID # executions[1].orderID
    /\ executions[1].timestamp = 3
    /\ executions[2].timestamp = 2
    /\ executions[3].timestamp = 1
    /\ Len(allSessions) = 1
    /\ allSessions[1].status = "closed"
    /\ allSessions[1].openTime = 1
    /\ allSessions[1].closeTime = 2
    /\ allSessions[1].tradeCount = 3


\* The net quantity of a list of orders: what opens minus what closes.
NetOfOrders(orders, positionSide) ==
    SumSeq([i \in 1..Len(orders) |->
               IF (positionSide = "SHORT") = (orders[i].side = "Sell")
               THEN orders[i].totalQty ELSE -orders[i].totalQty])

\* Entry quantity minus exit quantity of an emitted hedge-mode session.
NetOfSession(s) ==
    IF s.side = "short" THEN s.totalSold - s.totalBought
    ELSE s.totalBought - s.totalSold

PositionsHeld(s) ==
    {IF IsFlipStep(StepOf(s.trades[j].id)) /\ j > 1 THEN 0
     ELSE StepOf(s.trades[j].id).positionAfter : j \in 1..Len(s.trades)}

\* C29: in the inverse calculator, after each execution has been processed,
\* a session is accumulating (it has a start time and at least one trade)
\* exactly when the symbol's running position is non-zero, and within one
\* session the running position never changes sign, so the side held is the
\* same from the session's open to its finalization.
C29_AccumulatingIffPositionHeld ==
    calculator = "bitmex" =>
      /\ pc = "walk" =>
            /\ (sessionStartTime # Null) <=> (runningPosition # 0)
            /\ (Len(sessionExecutions) > 0) <=> (runningPosition # 0)
            /\ \A j \in 1..Len(sessionExecutions) :
                  LET step == StepOf(sessionExecutions[j].execID)
                  IN  Sign(step.positionAfter) = Sign(runningPosition)
      /\ \A k \in TraceIndexes :
            (trace[k].positionBefore # 0 /\ trace[k].idAfter = trace[k].idBefore) =>
                Sign(trace[k].positionAfter) = Sign(trace[k].positionBefore)
      /\ pc = "done" =>
            \A i \in SessionIndexes :
                \E side \in {1, -1} :
                    \A p \in PositionsHeld(allSessions[i]) :
                        Sign(p) = side \/ p = 0

\* C29, witness: the walk after a buy, a sell that flipped the position and
\* another sell: the session opened by the flip is accumulating with two
\* trades and a short position.
C29_Witness ==
    /\ calculator = "bitmex"
    /\ pc = "walk"
    /\ Len(trace) = 3
    /\ trace[1].positionAfter > 0
    /\ IsFlipStep(trace[2])
    /\ ~IsFlipStep(trace[3])
    /\ runningPosition < 0
    /\ Len(sessionExecutions) = 2
    /\ sessionStartTime = trace[2].timestamp


\* The iteration took the position across zero, from outside the epsilon
\* band on one side to outside it on the other.
CrossesZero(step) ==
    /\ Abs(step.positionBefore) >= BINANCE_POSITION_TOLERANCE
    /\ Abs(step.positionAfter) >= BINANCE_POSITION_TOLERANCE
    /\ Sign(step.positionBefore) # Sign(step.positionAfter)

\* Whether session s lists an execution of order id.
HasOrder(s, id) == \E j \in 1..Len(s.trades) : s.trades[j].orderID = id

\* C30: in the hedge-mode calculator, an order that takes a partition's
\* running position across zero to the opposite sign without landing inside
\* the epsilon band neither closes the current session nor opens a new one:
\* the session keeps accumulating with its side unchanged (long unless the
\* partition is tagged SHORT) until the position returns to the band or the
\* partition ends.
C30_CrossingZeroKeepsSession ==
    calculator = "binance" =>
      /\ \A k \in TraceIndexes :
            CrossesZero(trace[k]) =>
                /\ trace[k].idAfter = trace[k].idBefore
                /\ ~trace[k].gapFired
                /\ trace[k].pendingBefore > 0
                /\ trace[k].positionEnd = trace[k].positionAfter
      /\ (pc = "walk" /\ cursor > 0 /\ CrossesZero(trace[Len(trace)])) =>
            /\ Len(sessionOrders) = trace[Len(trace)].pendingBefore + 1
            /\ sessionOrders[Len(sessionOrders)] = work[cursor]
            /\ sessionStartTime \in {Null, sessionOrders[1].timestamp}
      /\ pc = "done" =>
            \A k \in TraceIndexes :
                CrossesZero(trace[k]) =>
                    LET first == trace[k - trace[k].pendingBefore]
                        side == IF trace[k].key[2] = "SHORT" THEN "short" ELSE "long"
                        mine == {i \in SessionIndexes :
                                    /\ allSessions[i].id.prefix = trace[k].key
                                    /\ HasOrder(allSessions[i], trace[k].item)}
                    IN  /\ \A i \in mine :
                              /\ allSessions[i].id.seq = trace[k].idAfter
                              /\ allSessions[i].side = side
                              /\ allSessions[i].openTime = first.timestamp
                              /\ HasOrder(allSessions[i], first.item)
                              /\ HasOrder(allSessions[i], trace[k - 1].item)
                              /\ allSessions[i].status = "closed" <=>
                                    \E k2 \in TraceIndexes :
                                        /\ k2 > k
                                        /\ trace[k2].key = trace[k].key
                                        /\ ReturnsToBand(trace[k2])
                        /\ LeavesBand(first) => Cardinality(mine) = 1

\* C30, witness: a LONG partition in which a buy opened a session, a sell
\* took the position to the short side outside the band and a buy brought it
\* back to zero: one closed long session lists the three orders.
C30_Witness ==
    /\ pc = "done"
    /\ calculator = "binance"
    /\ Len(trace) = 3
    /\ trace[1].key[2] = "LONG"
    /\ LeavesBand(trace[1])
    /\ trace[1].positionAfter > 0
    /\ CrossesZero(trace[2])
    /\ ReturnsToBand(trace[3])
    /\ Len(allSessions) = 1
    /\ allSessions[1].side = "long"
    /\ allSessions[1].status = "closed"
    /\ allSessions[1].tradeCount = 3


\* C31: for every closed session emitted by either calculator, the trades
\* list is in ascending timestamp order, tradeCount equals its length, and
\* each trade's timestamp lies between the session's openTime and closeTime
\* inclusive.
C31_TradesWithinClosedSession ==
    \A i \in SessionIndexes :
        LET s == allSessions[i]
        IN  s.status = "closed" =>
                /\ \A j, k \in 1..Len(s.trades) :
                      j < k => s.trades[j].datetime <= s.trades[k].datetime
                /\ s.tradeCount = Len(s.trades)
                /\ \A j \in 1..Len(s.trades) :
                      /\ s.openTime <= s.trades[j].datetime
                      /\ s.trades[j].datetime <= s.closeTime


\* What loadTradesFromCSV returns on a cold cache.
FirstLoad == loadTradesFromCSV(ColdCache, executions, exchangeId).value

AscendingByDatetime(trades) ==
    \A j, k \in 1..Len(trades) :
        j < k => getTime(trades[j].datetime) <= getTime(trades[k].datetime)

\* C32: after any sequence of calls to the data loader's functions for one
\* exchange (loadTradesFromCSV, getPaginatedTrades with or without a symbol,
\* getOHLCData, calculateTradingStats), loadTradesFromCSV returns the cached
\* trades in ascending datetime order, as it did on its first call.
C32_LoadTradesStaysAscending ==
    \A i \in 1..Len(calls) :
        calls[i].fn = "loadTradesFromCSV" =>
            /\ AscendingByDatetime(calls[i].returned)
            /\ calls[i].returned = FirstLoad

====
